---- MODULE Spec2Model ----
(***************************************************************************)
(* IntelliREADME: the generation request of the extension                  *)
(* (IntelliREADMEExtension.generateReadme), the credential checks of       *)
(* ConfigManager and the model loop of GroqService.generateReadme.         *)
(*                                                                         *)
(* Strings whose content the code inspects (error messages searched with   *)
(* String.includes) are sequences of one-character strings, so that the    *)
(* search is computed character by character, case included.               *)
(*                                                                         *)
(* Four parts of the project analysis are specified on their own:          *)
(* ClassifierSpec is GroqService.performDeepProjectAnalysis and            *)
(* ProjectAnalyzer.detectFramework applied to a project's metadata,        *)
(* ScannerSpec is FileUtils.getFileTypes and FileUtils.hasTestFiles        *)
(* applied to a directory tree, RendererSpec is                            *)
(* ReadmeGenerator.generateFolderStructure and                             *)
(* GroqService.generateDirectoryTree applied to a directory tree, and      *)
(* TemplateSpec is ProjectAnalyzer.analyzeProject followed by              *)
(* TemplateService.generateReadme on a project root.                       *)
(***************************************************************************)
EXTENDS Integers, Sequences, FiniteSets, TLC

(***************************************************************************)
(* Bounds of the model                                                     *)
(***************************************************************************)
\* largest amount of white space around a model's content
MaxPad == 1
\* number of generation requests in one behaviour ("Generate Another")
MaxRequests == 1

(***************************************************************************)
(* Program constants                                                       *)
(***************************************************************************)
\* readme.trim().length < 1000
MinContentLength == 1000
\* apiKey.length >= 40
MinKeyLength == 40

\* GroqService.models
models ==
  <<"moonshotai/kimi-k2-instruct", "llama-3.3-70b-versatile",
    "llama-3.1-8b-instant", "gemma2-9b-it">>

\* "gsk_"
KeyPrefix == <<"g","s","k","_">>

\* "Invalid API key. Please check your Groq API key."
InvalidApiKeyMsg ==
  <<"I","n","v","a","l","i","d"," ","A","P","I"," ","k","e","y","."," ","P","l","e","a","s","e"," ","c","h","e","c","k"," ","y","o","u","r"," ","G","r","o","q"," ","A","P","I"," ","k","e","y",".">>
\* "Rate limit exceeded. Please try again later."
RateLimitMsg ==
  <<"R","a","t","e"," ","l","i","m","i","t"," ","e","x","c","e","e","d","e","d","."," ","P","l","e","a","s","e"," ","t","r","y"," ","a","g","a","i","n"," ","l","a","t","e","r",".">>
\* "No API key configured. Please set your Groq API key."
NoApiKeyMsg ==
  <<"N","o"," ","A","P","I"," ","k","e","y"," ","c","o","n","f","i","g","u","r","e","d","."," ","P","l","e","a","s","e"," ","s","e","t"," ","y","o","u","r"," ","G","r","o","q"," ","A","P","I"," ","k","e","y",".">>
\* "All AI models failed. Check your API key and try again."
AllModelsFailedMsg ==
  <<"A","l","l"," ","A","I"," ","m","o","d","e","l","s"," ","f","a","i","l","e","d","."," ","C","h","e","c","k"," ","y","o","u","r"," ","A","P","I"," ","k","e","y"," ","a","n","d"," ","t","r","y"," ","a","g","a","i","n",".">>
\* the message of the error a rejected fetch() or body read carries
FetchFailedMsg ==
  <<"f","e","t","c","h"," ","f","a","i","l","e","d">>
\* errorMessage.includes("Invalid API key")
InvalidApiKeyPat ==
  <<"I","n","v","a","l","i","d"," ","A","P","I"," ","k","e","y">>
\* errorMessage.includes("rate limit")
RateLimitPat ==
  <<"r","a","t","e"," ","l","i","m","i","t">>

(***************************************************************************)
(* String helpers                                                          *)
(***************************************************************************)
\* String.prototype.includes: pat occurs in s as a contiguous run
Includes(s, pat) ==
  \E i \in 0..(Len(s) - Len(pat)) : SubSeq(s, i + 1, i + Len(pat)) = pat

(***************************************************************************)
(* Credentials.  A key is its first four characters and its length; the    *)
(* code looks at nothing else.  Undefined is the setting being absent.     *)
(***************************************************************************)
Key(head, len) == [head |-> head, len |-> len]

\* the setting is absent: config.get returns undefined
Undefined == Key(<<>>, -1)

EmptyKey  == Key(<<>>, 0)
BadKey    == Key(<<"s","k","-","a">>, 51)
ShortKey  == Key(KeyPrefix, MinKeyLength - 1)
MinKey    == Key(KeyPrefix, MinKeyLength)
LongKey   == Key(KeyPrefix, 56)

\* what the user may type into the input box
TypedKeys == {EmptyKey, BadKey, ShortKey, MinKey, LongKey}
\* what the settings files may hold when the request starts
WorkspaceKeys == {Undefined, BadKey, ShortKey}
GlobalKeys == {Undefined, EmptyKey, MinKey}

\* JavaScript truthiness of a string | undefined
Truthy(k) == k # Undefined /\ k.len > 0

\* value.startsWith("gsk_")
StartsWithPrefix(k) == k.len >= Len(KeyPrefix) /\ k.head = KeyPrefix

\* config.get("groqApiKey"): the workspace value overrides the user (Global)
\* value, which is the one config.update(..., ConfigurationTarget.Global) sets
ConfigGet(ws, glob) == IF ws # Undefined THEN ws ELSE glob

\* ConfigManager.getGroqApiKey
getGroqApiKey(ws, glob) ==
  LET apiKey == ConfigGet(ws, glob)
  IN  IF Truthy(apiKey) /\ ~StartsWithPrefix(apiKey) THEN Undefined ELSE apiKey

\* ConfigManager.hasValidApiKey
hasValidApiKey(ws, glob) ==
  LET apiKey == getGroqApiKey(ws, glob)
  IN  /\ apiKey # Undefined
      /\ apiKey.len > 0
      /\ StartsWithPrefix(apiKey)
      /\ apiKey.len >= MinKeyLength

\* validateInput of the input box in promptAndSaveApiKey: TRUE when the
\* box lets the value through (the callback returns null)
validateInput(value) ==
  /\ Truthy(value)
  /\ StartsWithPrefix(value)
  /\ ~(value.len < MinKeyLength)

(***************************************************************************)
(* Text returned by a model.  A text is the length of its leading white    *)
(* space, of the part from the first to the last non-blank character, and  *)
(* of its trailing white space.                                            *)
(***************************************************************************)
Text(lead, core, trail) == [lead |-> lead, core |-> core, trail |-> trail]

\* string.length
Length(t) == t.lead + t.core + t.trail

\* String.prototype.trim
Trim(t) == Text(0, t.core, 0)

\* lengths of the non-blank part the models may answer with
CoreLens == {0, 50, MinContentLength - 1, MinContentLength, 2000}

Pads == 0..MaxPad

Texts ==
  { x \in [lead : Pads, core : CoreLens, trail : Pads] :
      x.lead + x.trail <= MaxPad }

(***************************************************************************)
(* What one fetch() to the chat-completions endpoint can come back with.   *)
(*   reject : fetch() rejects (network error)                              *)
(*   http   : a response with response.ok false; bodyOk tells whether      *)
(*            response.text() delivers the body                            *)
(*   ok     : a 2xx response; parseOk tells whether response.json()        *)
(*            parses, hasContent whether choices[0].message.content is     *)
(*            there, text is that content                                  *)
(***************************************************************************)
NoText == Text(0, 0, 0)

Outcome(kind, status, bodyOk, parseOk, hasContent, text) ==
  [kind |-> kind, status |-> status, bodyOk |-> bodyOk, parseOk |-> parseOk,
   hasContent |-> hasContent, text |-> text]

NoOutcome == Outcome("none", 0, FALSE, FALSE, FALSE, NoText)

ErrorStatuses == {401, 429, 500}

Outcomes ==
  {Outcome("reject", 0, FALSE, FALSE, FALSE, NoText)}
  \cup { Outcome("http", st, b, FALSE, FALSE, NoText) :
           st \in ErrorStatuses, b \in BOOLEAN }
  \cup {Outcome("ok", 200, TRUE, FALSE, FALSE, NoText),
        Outcome("ok", 200, TRUE, TRUE, FALSE, NoText)}
  \cup { Outcome("ok", 200, TRUE, TRUE, TRUE, t) : t \in Texts }

\* what one pass through the loop body does
Continue == [op |-> "continue", msg |-> <<>>, text |-> NoText]
Raise(msg) == [op |-> "raise", msg |-> msg, text |-> NoText]
Throw(msg) == [op |-> "throw", msg |-> msg, text |-> NoText]
Return(t) == [op |-> "return", msg |-> <<>>, text |-> t]

\* Insufficient with the comparison <= in place of <
InsufficientStrict(o) ==
  \/ ~o.hasContent
  \/ Length(o.text) = 0
  \/ Trim(o.text).core <= MinContentLength

\* !readme || readme.trim().length < 1000
Insufficient(o) ==
  \/ ~o.hasContent
  \/ Length(o.text) = 0
  \/ Trim(o.text).core < MinContentLength

\* TryBlock returning readme in place of readme.trim()
TryBlockNoTrim(o) ==
  IF o.kind = "reject" THEN Raise(FetchFailedMsg)
  ELSE IF o.kind = "http" THEN
    IF ~o.bodyOk THEN Raise(FetchFailedMsg)
    ELSE IF o.status = 401 THEN Raise(InvalidApiKeyMsg)
    ELSE IF o.status = 429 THEN Raise(RateLimitMsg)
    ELSE Continue
  ELSE IF ~o.parseOk THEN Continue
  ELSE IF Insufficient(o) THEN Continue
  ELSE Return(o.text)

\* the try block of the loop body in GroqService.generateReadme
TryBlock(o) ==
  IF o.kind = "reject" THEN Raise(FetchFailedMsg)
  ELSE IF o.kind = "http" THEN
    IF ~o.bodyOk THEN Raise(FetchFailedMsg)
    ELSE IF o.status = 401 THEN Raise(InvalidApiKeyMsg)
    ELSE IF o.status = 429 THEN Raise(RateLimitMsg)
    ELSE Continue
  ELSE IF ~o.parseOk THEN Continue
  ELSE IF Insufficient(o) THEN Continue
  ELSE Return(Trim(o.text))

\* CatchBlock that never rethrows
CatchBlockSwallow(errorMessage) == Continue

\* CatchBlock that rethrows every error
CatchBlockRethrow(errorMessage) == Throw(errorMessage)

\* the catch block of the loop body in GroqService.generateReadme
CatchBlock(errorMessage) ==
  IF Includes(errorMessage, InvalidApiKeyPat)
     \/ Includes(errorMessage, RateLimitPat)
  THEN Throw(errorMessage)
  ELSE Continue

\* one iteration of the loop over modelsToTry
Attempt(o) ==
  LET r == TryBlock(o)
  IN  IF r.op = "raise" THEN CatchBlock(r.msg) ELSE r

\* this.models.filter((m) => m !== preferredModel)
RECURSIVE FilterNot(_, _)
FilterNot(seq, x) ==
  IF seq = <<>> THEN <<>>
  ELSE IF Head(seq) # x THEN <<Head(seq)>> \o FilterNot(Tail(seq), x)
  ELSE FilterNot(Tail(seq), x)

\* ModelsToTry without the filter
ModelsToTryNoFilter(preferred) == <<preferred>> \o models

\* [preferredModel, ...this.models.filter((m) => m !== preferredModel)]
ModelsToTry(preferred) == <<preferred>> \o FilterNot(models, preferred)

(***************************************************************************)
(* Project metadata.  Names (dependencies, scripts, file types, the        *)
(* project name, the rendered directory tree) are strings; the code        *)
(* searches them with String.includes after join and toLowerCase, and the  *)
(* model computes the same search on the same characters.                  *)
(***************************************************************************)
\* the lower-case form of each upper-case letter
LowerOf ==
  LET upper == <<"A", "B", "C", "D", "E", "F", "G", "H", "I", "J", "K", "L",
                 "M", "N", "O", "P", "Q", "R", "S", "T", "U", "V", "W", "X",
                 "Y", "Z">>
      lower == <<"a", "b", "c", "d", "e", "f", "g", "h", "i", "j", "k", "l",
                 "m", "n", "o", "p", "q", "r", "s", "t", "u", "v", "w", "x",
                 "y", "z">>
  IN  [c \in {upper[k] : k \in 1..Len(upper)} |->
         lower[CHOOSE k \in 1..Len(upper) : upper[k] = c]]

\* String.prototype.toLowerCase on one character
LowerChar(c) == IF c \in DOMAIN LowerOf THEN LowerOf[c] ELSE c

\* String.prototype.toLowerCase
RECURSIVE ToLowerCase(_)
ToLowerCase(s) ==
  IF Len(s) = 0 THEN ""
  ELSE LowerChar(SubSeq(s, 1, 1)) \o ToLowerCase(SubSeq(s, 2, Len(s)))

\* Array.prototype.join
RECURSIVE Join(_, _)
Join(list, sep) ==
  IF list = <<>> THEN ""
  ELSE IF Len(list) = 1 THEN list[1]
  ELSE list[1] \o sep \o Join(Tail(list), sep)

\* Array.prototype.some with (dep) => dep.includes(pat)
SomeIncludes(list, pat) == \E k \in 1..Len(list) : Includes(list[k], pat)

\* Array.prototype.includes: x is an element of list
ArrayIncludes(list, x) == \E k \in 1..Len(list) : list[k] = x

\* ProjectInfo, the fields the classification reads
ProjectInfo(name, dependencies, devDependencies, scripts, fileTypes) ==
  [name |-> name, dependencies |-> dependencies,
   devDependencies |-> devDependencies, scripts |-> scripts,
   fileTypes |-> fileTypes]

\* ProjectAnalysis
ProjectAnalysis(projectType, mainPurpose, keyTechnologies, frameworkDetails, specialFeatures, architectureNotes, deploymentHints) ==
  [projectType |-> projectType, mainPurpose |-> mainPurpose,
   keyTechnologies |-> keyTechnologies, frameworkDetails |-> frameworkDetails,
   specialFeatures |-> specialFeatures,
   architectureNotes |-> architectureNotes,
   deploymentHints |-> deploymentHints]

\* the initial values with the project type "Software"
InitialAnalysisSoftware ==
  ProjectAnalysis("Software", "A modern software application",
                  <<>>, "", <<>>, "", "")

\* the initial values with an empty main purpose
InitialAnalysisNoPurpose ==
  ProjectAnalysis("Application", "", <<>>, "", <<>>, "", "")

\* performDeepProjectAnalysis: the values the result starts from
InitialAnalysis ==
  ProjectAnalysis("Application", "A modern software application",
                  <<>>, "", <<>>, "", "")

\* the backend test without the start script
BackendSignalDepsOnly(allDeps, fileTypes, scripts) ==
  \/ Includes(allDeps, "express")
  \/ Includes(allDeps, "fastify")
  \/ Includes(allDeps, "koa")
  \/ Includes(allDeps, "nestjs")
  \/ Includes(fileTypes, "controller")

\* performDeepProjectAnalysis: the condition of the API/Backend branch
BackendSignal(allDeps, fileTypes, scripts) ==
  \/ Includes(allDeps, "express")
  \/ Includes(allDeps, "fastify")
  \/ Includes(allDeps, "koa")
  \/ Includes(allDeps, "nestjs")
  \/ Includes(fileTypes, "controller")
  \/ Includes(scripts, "start")

\* performDeepProjectAnalysis: the API/Backend branch
BackendBranch(a) ==
  [a EXCEPT
     !.projectType = "Backend API",
     !.mainPurpose = "A robust backend API service providing RESTful endpoints",
     !.keyTechnologies = @ \o <<"Node.js", "Express/Fastify", "API Development">>,
     !.frameworkDetails = "Built with modern Node.js framework",
     !.specialFeatures = @ \o <<"RESTful API endpoints", "Middleware integration",
                                "Database connectivity">>,
     !.architectureNotes = "Follows REST architectural patterns"]

\* the features the React branch appends after its sub-decision
ReactFeatures(allDeps) ==
  (IF Includes(allDeps, "router") THEN <<"Client-side routing">> ELSE <<>>)
  \o (IF Includes(allDeps, "redux") \/ Includes(allDeps, "zustand")
      THEN <<"State management">> ELSE <<>>)
  \o (IF Includes(allDeps, "query") \/ Includes(allDeps, "swr")
      THEN <<"Data fetching optimization">> ELSE <<>>)

\* the React branch without the Next.js detection
ReactBranchNoNext(a, allDeps, scripts) ==
  LET r == [a EXCEPT
              !.projectType = "React Application",
              !.frameworkDetails = "Built with React ecosystem",
              !.keyTechnologies = @ \o <<"React", "JavaScript/TypeScript",
                                         "Modern Frontend">>]
      s == IF Includes(allDeps, "vite") \/ Includes(scripts, "vite")
           THEN [r EXCEPT
                   !.mainPurpose = "A fast, modern React application built with Vite",
                   !.specialFeatures = @ \o <<"Lightning-fast development",
                                              "Hot module replacement",
                                              "Optimized builds">>,
                   !.deploymentHints = "Builds to static files, deployable on any web server"]
           ELSE [r EXCEPT
                   !.mainPurpose = "A dynamic React application with modern user interface",
                   !.specialFeatures = @ \o <<"Component-based architecture",
                                              "Virtual DOM", "State management">>]
  IN  [s EXCEPT !.specialFeatures = @ \o ReactFeatures(allDeps)]

\* performDeepProjectAnalysis: the React branch
ReactBranch(a, allDeps, scripts) ==
  LET r == [a EXCEPT
              !.projectType = "React Application",
              !.frameworkDetails = "Built with React ecosystem",
              !.keyTechnologies = @ \o <<"React", "JavaScript/TypeScript",
                                         "Modern Frontend">>]
      s == IF Includes(allDeps, "next")
           THEN [r EXCEPT
                   !.projectType = "Next.js Application",
                   !.mainPurpose = "A full-stack React application with server-side rendering",
                   !.frameworkDetails = "Built with Next.js framework",
                   !.specialFeatures = @ \o <<"Server-side rendering", "API routes",
                                              "Static generation",
                                              "Image optimization">>,
                   !.deploymentHints = "Deployable on Vercel, Netlify, or any Node.js server"]
           ELSE IF Includes(allDeps, "vite") \/ Includes(scripts, "vite")
           THEN [r EXCEPT
                   !.mainPurpose = "A fast, modern React application built with Vite",
                   !.specialFeatures = @ \o <<"Lightning-fast development",
                                              "Hot module replacement",
                                              "Optimized builds">>,
                   !.deploymentHints = "Builds to static files, deployable on any web server"]
           ELSE [r EXCEPT
                   !.mainPurpose = "A dynamic React application with modern user interface",
                   !.specialFeatures = @ \o <<"Component-based architecture",
                                              "Virtual DOM", "State management">>]
  IN  [s EXCEPT !.specialFeatures = @ \o ReactFeatures(allDeps)]

\* performDeepProjectAnalysis: the Vue.js branch
VueBranch(a) ==
  [a EXCEPT
     !.projectType = "Vue.js Application",
     !.mainPurpose = "A progressive Vue.js application with reactive user interface",
     !.frameworkDetails = "Built with Vue.js framework",
     !.keyTechnologies = @ \o <<"Vue.js", "JavaScript/TypeScript", "Frontend">>,
     !.specialFeatures = @ \o <<"Reactive data binding", "Component composition",
                                "Vue ecosystem">>]

\* performDeepProjectAnalysis: the Angular branch
AngularBranch(a) ==
  [a EXCEPT
     !.projectType = "Angular Application",
     !.mainPurpose = "A comprehensive Angular application with enterprise-grade features",
     !.frameworkDetails = "Built with Angular framework",
     !.keyTechnologies = @ \o <<"Angular", "TypeScript", "Enterprise Frontend">>,
     !.specialFeatures = @ \o <<"Dependency injection", "RxJS integration",
                                "Angular CLI">>]

\* performDeepProjectAnalysis: the mobile branch
MobileBranch(a) ==
  [a EXCEPT
     !.projectType = "React Native Mobile App",
     !.mainPurpose = "A cross-platform mobile application for iOS and Android",
     !.frameworkDetails = "Built with React Native",
     !.keyTechnologies = @ \o <<"React Native", "Mobile Development",
                                "Cross-platform">>,
     !.specialFeatures = @ \o <<"Native performance",
                                "Cross-platform compatibility",
                                "Mobile-optimized UI">>]

\* performDeepProjectAnalysis: the desktop branch
DesktopBranch(a) ==
  [a EXCEPT
     !.projectType = "Desktop Application",
     !.mainPurpose = "A cross-platform desktop application built with web technologies",
     !.frameworkDetails = "Built with Electron framework",
     !.keyTechnologies = @ \o <<"Electron", "Desktop Development",
                                "Cross-platform">>,
     !.specialFeatures = @ \o <<"Native desktop integration",
                                "Cross-platform compatibility">>]

\* performDeepProjectAnalysis: the Python branch
PythonBranch(a, allDeps) ==
  LET r == [a EXCEPT !.projectType = "Python Application"]
      s == IF Includes(allDeps, "django")
           THEN [r EXCEPT
                   !.mainPurpose = "A Django web application with robust backend functionality",
                   !.frameworkDetails = "Built with Django framework",
                   !.specialFeatures = @ \o <<"ORM integration", "Admin interface",
                                              "Security features">>]
           ELSE IF Includes(allDeps, "flask")
           THEN [r EXCEPT
                   !.mainPurpose = "A lightweight Flask web application",
                   !.frameworkDetails = "Built with Flask framework",
                   !.specialFeatures = @ \o <<"Lightweight architecture",
                                              "Flexible routing",
                                              "Template engine">>]
           ELSE [r EXCEPT
                   !.mainPurpose = "A Python application with modern development practices",
                   !.frameworkDetails = "Built with Python"]
  IN  [s EXCEPT !.keyTechnologies = @ \o <<"Python", "Backend Development">>]

\* RuleTaken that tests for a mobile app before it tests for React
RuleTakenMobileFirst(allDeps, fileTypes, scripts) ==
  IF BackendSignal(allDeps, fileTypes, scripts) THEN 1
  ELSE IF Includes(allDeps, "react-native") \/ Includes(allDeps, "expo") THEN 5
  ELSE IF Includes(allDeps, "react") THEN 2
  ELSE IF Includes(allDeps, "vue") THEN 3
  ELSE IF Includes(allDeps, "angular") \/ Includes(allDeps, "@angular") THEN 4
  ELSE IF Includes(allDeps, "electron") THEN 6
  ELSE IF \/ Includes(fileTypes, ".py")
          \/ Includes(allDeps, "django")
          \/ Includes(allDeps, "flask") THEN 7
  ELSE 0

\* the number of the branch of the project type detection that is taken,
\* 0 when none is
RuleTaken(allDeps, fileTypes, scripts) ==
  IF BackendSignal(allDeps, fileTypes, scripts) THEN 1
  ELSE IF Includes(allDeps, "react") THEN 2
  ELSE IF Includes(allDeps, "vue") THEN 3
  ELSE IF Includes(allDeps, "angular") \/ Includes(allDeps, "@angular") THEN 4
  ELSE IF Includes(allDeps, "react-native") \/ Includes(allDeps, "expo") THEN 5
  ELSE IF Includes(allDeps, "electron") THEN 6
  ELSE IF \/ Includes(fileTypes, ".py")
          \/ Includes(allDeps, "django")
          \/ Includes(allDeps, "flask") THEN 7
  ELSE 0

\* performDeepProjectAnalysis: the project type detection, an if/else-if
\* chain over the branches
DetectProjectType(allDeps, fileTypes, scripts) ==
  LET a == InitialAnalysis
      rule == RuleTaken(allDeps, fileTypes, scripts)
  IN  CASE rule = 1 -> BackendBranch(a)
        [] rule = 2 -> ReactBranch(a, allDeps, scripts)
        [] rule = 3 -> VueBranch(a)
        [] rule = 4 -> AngularBranch(a)
        [] rule = 5 -> MobileBranch(a)
        [] rule = 6 -> DesktopBranch(a)
        [] rule = 7 -> PythonBranch(a, allDeps)
        [] OTHER -> a

\* the tests of the detection by name and dependencies, in the order of
\* the code: weather, todo, shop, blog, chat
OverlayTest(k, projectName, allDeps) ==
  CASE k = 1 -> \/ Includes(projectName, "weather")
                \/ Includes(projectName, "klimate")
                \/ Includes(allDeps, "weather")
    [] k = 2 -> Includes(projectName, "todo") \/ Includes(projectName, "task")
    [] k = 3 -> \/ Includes(projectName, "ecommerce")
                \/ Includes(projectName, "shop")
                \/ Includes(allDeps, "stripe")
    [] k = 4 -> Includes(projectName, "blog") \/ Includes(allDeps, "contentful")
    [] k = 5 -> \/ Includes(projectName, "chat")
                \/ Includes(projectName, "message")
                \/ Includes(allDeps, "socket.io")

\* the main purpose each branch assigns
OverlayPurpose ==
  <<"A comprehensive weather application providing real-time weather data and forecasts",
    "A task management application for organizing and tracking activities",
    "An e-commerce platform for online shopping and sales",
    "A content management system for publishing and managing articles",
    "A real-time communication platform for messaging and collaboration">>

\* the features each branch appends
OverlayFeatures ==
  <<<<"Real-time weather data", "Location services", "Weather forecasts",
      "Interactive charts">>,
    <<"Task creation and management", "Priority settings",
      "Progress tracking">>,
    <<"Product catalog", "Shopping cart", "Payment processing",
      "Order management">>,
    <<"Content creation", "Publishing system", "SEO optimization">>,
    <<"Real-time messaging", "User presence", "Message history">>>>

\* branch k of the detection by name and dependencies applied to a
Overlay(a, k) ==
  [a EXCEPT !.mainPurpose = OverlayPurpose[k],
            !.specialFeatures = @ \o OverlayFeatures[k]]

\* branch k applied to a when its test holds
OverlayIf(a, k, projectName, allDeps) ==
  IF OverlayTest(k, projectName, allDeps) THEN Overlay(a, k) ELSE a

\* the detection by name and dependencies as five independent tests
NameDetectionEachTest(a, projectName, allDeps) ==
  OverlayIf(OverlayIf(OverlayIf(OverlayIf(OverlayIf(a,
    1, projectName, allDeps),
    2, projectName, allDeps),
    3, projectName, allDeps),
    4, projectName, allDeps),
    5, projectName, allDeps)

\* performDeepProjectAnalysis: the detection by name and dependencies, an
\* if/else-if chain
NameDetection(a, projectName, allDeps) ==
  IF OverlayTest(1, projectName, allDeps) THEN Overlay(a, 1)
  ELSE IF OverlayTest(2, projectName, allDeps) THEN Overlay(a, 2)
  ELSE IF OverlayTest(3, projectName, allDeps) THEN Overlay(a, 3)
  ELSE IF OverlayTest(4, projectName, allDeps) THEN Overlay(a, 4)
  ELSE IF OverlayTest(5, projectName, allDeps) THEN Overlay(a, 5)
  ELSE a

\* one technology addition applied to a when cond holds
Addition(a, cond, technology, features) ==
  IF cond
  THEN [a EXCEPT !.keyTechnologies = Append(@, technology),
                 !.specialFeatures = @ \o features]
  ELSE a

\* performDeepProjectAnalysis: the technology-specific additions
TechnologyAdditions(a, allDeps, fileTypes) ==
  LET a1 == Addition(a,
                     \/ Includes(allDeps, "typescript")
                     \/ Includes(fileTypes, ".ts")
                     \/ Includes(fileTypes, ".tsx"),
                     "TypeScript",
                     <<"Type safety", "Enhanced development experience">>)
      a2 == Addition(a1, Includes(allDeps, "tailwind"), "Tailwind CSS",
                     <<"Utility-first styling", "Responsive design system">>)
      a3 == Addition(a2,
                     \/ Includes(allDeps, "prisma")
                     \/ Includes(allDeps, "mongoose")
                     \/ Includes(allDeps, "sequelize"),
                     "Database ORM",
                     <<"Database integration", "Data modeling">>)
  IN  Addition(a3,
               \/ Includes(allDeps, "jest")
               \/ Includes(allDeps, "vitest")
               \/ Includes(allDeps, "cypress"),
               "Testing Framework",
               <<"Automated testing", "Quality assurance">>)

\* the architecture notes the three tests on the tree assign
ArchitectureNotes ==
  <<"Modern component-based architecture with custom hooks",
    "MVC (Model-View-Controller) architecture pattern",
    "Service-oriented architecture with utility functions">>

\* the number of the architecture test that matches the tree, 0 when none
ArchitectureMatch(projectStructure) ==
  IF Includes(projectStructure, "components") /\ Includes(projectStructure, "hooks")
  THEN 1
  ELSE IF Includes(projectStructure, "controllers") /\ Includes(projectStructure, "models")
  THEN 2
  ELSE IF Includes(projectStructure, "services") /\ Includes(projectStructure, "utils")
  THEN 3
  ELSE 0

\* the architecture detection that empties the note when no test matches
ArchitectureDetectionOrEmpty(a, projectStructure) ==
  LET m == ArchitectureMatch(projectStructure)
  IN  [a EXCEPT !.architectureNotes =
         IF m # 0 THEN ArchitectureNotes[m] ELSE ""]

\* performDeepProjectAnalysis: the architecture detection
ArchitectureDetection(a, projectStructure) ==
  LET m == ArchitectureMatch(projectStructure)
  IN  [a EXCEPT !.architectureNotes =
         IF m # 0 THEN ArchitectureNotes[m] ELSE @]

\* GroqService.performDeepProjectAnalysis.  projectStructure is what
\* analyzeProjectStructure returned for projectInfo.workspacePath.
performDeepProjectAnalysis(projectInfo, projectStructure) ==
  LET deps == ToLowerCase(Join(projectInfo.dependencies, " "))
      devDeps == ToLowerCase(Join(projectInfo.devDependencies, " "))
      allDeps == deps \o " " \o devDeps
      scripts == ToLowerCase(Join(projectInfo.scripts, " "))
      fileTypes == Join(projectInfo.fileTypes, " ")
      projectName == ToLowerCase(projectInfo.name)
      a1 == DetectProjectType(allDeps, fileTypes, scripts)
      a2 == NameDetection(a1, projectName, allDeps)
      a3 == TechnologyAdditions(a2, allDeps, fileTypes)
  IN  ArchitectureDetection(a3, projectStructure)

\* ProjectAnalyzer.detectFramework
detectFramework(projectInfo) ==
  LET deps == projectInfo.dependencies \o projectInfo.devDependencies
  IN  IF SomeIncludes(deps, "next") THEN "Next.js"
      ELSE IF SomeIncludes(deps, "nuxt") THEN "Nuxt.js"
      ELSE IF SomeIncludes(deps, "react") THEN "React"
      ELSE IF SomeIncludes(deps, "vue") THEN "Vue.js"
      ELSE IF SomeIncludes(deps, "angular") THEN "Angular"
      ELSE IF SomeIncludes(deps, "express") THEN "Express.js"
      ELSE IF SomeIncludes(deps, "nestjs") THEN "NestJS"
      ELSE IF ArrayIncludes(projectInfo.fileTypes, ".py") THEN "Python"
      ELSE IF Len(deps) > 0 THEN "Node.js"
      ELSE "Software"

(***************************************************************************)
(* The projects the classification is checked on                           *)
(***************************************************************************)
\* largest number of entries of package.json "dependencies"
MaxDeps == 2

\* names package.json "dependencies" may hold, in the order of the file
DepNames ==
  <<"express", "react", "next", "react-native", "expo", "vue",
    "@angular/core", "electron", "stripe", "socket.io", "lodash">>

\* Object.keys(packageJson.dependencies || {}): at most MaxDeps of DepNames,
\* in the order of the file
DependencyLists ==
  LET picks == UNION {[1..n -> 1..Len(DepNames)] : n \in 0..MaxDeps}
      ordered == {f \in picks :
                    \A i \in DOMAIN f, j \in DOMAIN f : i < j => f[i] < f[j]}
  IN  {[i \in DOMAIN f |-> DepNames[f[i]]] : f \in ordered}

\* Object.keys(packageJson.devDependencies || {})
DevDependencyLists == {<<>>, <<"vite">>, <<"@types/express">>}

\* Object.keys(packageJson.scripts || {})
ScriptLists == {<<>>, <<"dev">>, <<"dev", "start">>}

\* FileUtils.getFileTypes(workspacePath)
FileTypeLists == {<<>>, <<".js", ".py">>, <<".controller">>}

\* packageJson.name || path.basename(workspacePath)
ProjectNames == {"my-app", "weather-chat-shop", "Task-Blog"}

\* what analyzeProjectStructure returns for the workspace: the tree of
\* generateDirectoryTree, or the text of its catch block.  The glyphs of the
\* tree are written "|-- " (an entry), "+-- " (the last entry of a
\* directory) and "|   " (one level of nesting).
ProjectStructures ==
  {"",
   "|-- components/\n|-- hooks/\n+-- package.json\n",
   "|-- controllers/\n|-- models/\n+-- utils/\n",
   "|-- src/\n|   |-- services/\n|   +-- utils/\n+-- package.json\n",
   "|-- components/\n|-- controllers/\n|-- hooks/\n+-- models/\n",
   "Project structure analysis unavailable"}

\* no project analysed yet
NoProject == ProjectInfo("", <<>>, <<>>, <<>>, <<>>)
NoAnalysis == ProjectAnalysis("", "", <<>>, "", <<>>, "", "")

(***************************************************************************)
(* The project directory.  The tree on disk is a chain of directories, one *)
(* listing per level: tree[1] is what readdirSync returns for the project  *)
(* root (entries at depth 1), and tree[k + 1] is the listing of the first  *)
(* directory of tree[k]; every other directory is empty.  An entry is its  *)
(* name and what statSync says about it.  An entry is identified by its    *)
(* level and its position in the listing, the root by <<0, 0>>.            *)
(***************************************************************************)
\* largest depth of an entry below the project root
MaxLevels == 4

\* a directory entry: kind is "file", "dir", "locked" for a directory on
\* which readdirSync throws, or "error" when statSync throws
Entry(name, kind) == [name |-> name, kind |-> kind]

\* the listings a directory may have, in the order readdirSync returns them
Listings ==
  {<<>>,
   <<Entry("app.test.ts", "file")>>,
   <<Entry("main.py", "file")>>,
   <<Entry(".env", "file")>>,
   <<Entry("lib", "dir")>>,
   <<Entry("lib", "dir"), Entry("main.py", "file")>>,
   <<Entry("main.py", "file"), Entry("lib", "dir")>>,
   <<Entry("node_modules", "dir")>>,
   <<Entry("node_modules", "dir"), Entry("main.py", "file")>>,
   <<Entry(".cache", "dir"), Entry("app.test.ts", "file")>>,
   <<Entry("dangling", "error"), Entry("app.test.ts", "file")>>,
   <<Entry("lib", "dir"), Entry("dangling", "error")>>,
   <<Entry("main.py", "file"), Entry("private", "locked")>>}

\* the position of the first directory of a listing, 0 when it has none
FirstDir(listing) ==
  IF \E i \in 1..Len(listing) : listing[i].kind = "dir"
  THEN CHOOSE i \in 1..Len(listing) :
         /\ listing[i].kind = "dir"
         /\ \A j \in 1..(i - 1) : listing[j].kind # "dir"
  ELSE 0

\* the trees on disk: at most MaxLevels listings, each but the last with a
\* directory to hold the next
Trees ==
  {t \in UNION {[1..n -> Listings] : n \in 1..MaxLevels} :
     \A k \in 1..(Len(t) - 1) : FirstDir(t[k]) # 0}

\* the project root
Root == <<0, 0>>

\* fs.readdirSync(dir) for the directory with identity dir
ReaddirSync(tree, dir) ==
  IF dir = Root THEN tree[1]
  ELSE IF dir[1] < Len(tree) /\ dir[2] = FirstDir(tree[dir[1]])
  THEN tree[dir[1] + 1]
  ELSE <<>>

\* String.prototype.startsWith
StartsWith(s, pat) == Len(s) >= Len(pat) /\ SubSeq(s, 1, Len(pat)) = pat

\* path.extname: from the last "." of the name on, "" when the name has no
\* "." or only a leading one
ExtName(file) ==
  LET dots == {i \in 1..Len(file) : SubSeq(file, i, i) = "."}
      last == CHOOSE i \in dots : \A j \in dots : j <= i
  IN  IF dots = {} THEN ""
      ELSE IF last = 1 THEN ""
      ELSE SubSeq(file, last, Len(file))

\* Set.prototype.add on a set kept in insertion order
SetAdd(seq, x) ==
  IF \E i \in 1..Len(seq) : seq[i] = x THEN seq ELSE Append(seq, x)

\* the entries both scans pass over, without the node_modules test
SkippedDotOnly(file) == StartsWith(file, ".")

\* getFileTypes and hasTestFiles: the entries passed over before statSync
Skipped(file) == StartsWith(file, ".") \/ file = "node_modules"

\* getFileTypes descending one level less
DescendsShallow(depth) == depth < 1

\* getFileTypes: scanDirectory descends into a directory it meets at depth
Descends(depth) == depth < 2

\* what a scan has done so far: the file types gathered, the answer of
\* hasTestFiles, the entries given to statSync, the directories given to
\* readdirSync, whether statSync or readdirSync threw, and whether the
\* exception reached the caller
Scan(fileTypes, found, statted, read, threw, propagated) ==
  [fileTypes |-> fileTypes, found |-> found, statted |-> statted,
   read |-> read, threw |-> threw, propagated |-> propagated]
NoScan == Scan(<<>>, FALSE, {}, {}, FALSE, FALSE)

\* readdirSync throws on the directory dir
Locked(tree, dir) == dir # Root /\ tree[dir[1]][dir[2]].kind = "locked"

\* FileUtils.getFileTypes: ScanEntries is the forEach of scanDirectory from
\* entry i on, ScanDirectory is scanDirectory(dir, depth)
RECURSIVE ScanEntries(_, _, _, _, _)
RECURSIVE ScanDirectory(_, _, _, _)
ScanEntries(tree, dir, depth, i, acc) ==
  LET files == ReaddirSync(tree, dir)
  IN  IF acc.threw \/ i > Len(files) THEN acc
      ELSE LET file == files[i]
               id == <<depth + 1, i>>
               seen == [acc EXCEPT !.statted = @ \cup {id}]
           IN  IF Skipped(file.name)
               THEN ScanEntries(tree, dir, depth, i + 1, acc)
               ELSE IF file.kind = "error"
               THEN [seen EXCEPT !.threw = TRUE]
               ELSE IF file.kind = "file"
               THEN ScanEntries(tree, dir, depth, i + 1,
                      IF ExtName(file.name) # ""
                      THEN [seen EXCEPT
                              !.fileTypes = SetAdd(@, ExtName(file.name))]
                      ELSE seen)
               ELSE IF Descends(depth)
               THEN ScanEntries(tree, dir, depth, i + 1,
                                ScanDirectory(tree, id, depth + 1, seen))
               ELSE ScanEntries(tree, dir, depth, i + 1, seen)
ScanDirectory(tree, dir, depth, acc) ==
  IF depth > 2 THEN acc
  ELSE IF Locked(tree, dir)
  THEN [acc EXCEPT !.read = @ \cup {dir}, !.threw = TRUE]
  ELSE ScanEntries(tree, dir, depth, 1, [acc EXCEPT !.read = @ \cup {dir}])

\* getFileTypes without its try block
getFileTypesNoCatch(tree) ==
  LET r == ScanDirectory(tree, Root, 0, NoScan)
  IN  [r EXCEPT !.propagated = r.threw]

\* FileUtils.getFileTypes(projectPath): the catch block logs and the types
\* gathered so far are returned
getFileTypes(tree) == ScanDirectory(tree, Root, 0, NoScan)

\* hasTestFiles: the test on the name of a file
IsTestFile(file) ==
  \/ Includes(ToLowerCase(file), "test")
  \/ Includes(ToLowerCase(file), "spec")
  \/ Includes(file, ".test.")
  \/ Includes(file, ".spec.")

\* hasTestFiles: the test on the name of a directory
IsTestDirectory(file) ==
  \/ Includes(ToLowerCase(file), "test")
  \/ Includes(ToLowerCase(file), "spec")
  \/ file = "__tests__"

\* FileUtils.hasTestFiles: CheckEntries is files.some of checkDirectory from
\* entry i on, CheckDirectory is checkDirectory(dir, depth)
RECURSIVE CheckEntries(_, _, _, _, _)
RECURSIVE CheckDirectory(_, _, _, _)
CheckEntries(tree, dir, depth, i, acc) ==
  LET files == ReaddirSync(tree, dir)
  IN  IF acc.threw \/ acc.found \/ i > Len(files) THEN acc
      ELSE LET file == files[i]
               id == <<depth + 1, i>>
               seen == [acc EXCEPT !.statted = @ \cup {id}]
           IN  IF Skipped(file.name)
               THEN CheckEntries(tree, dir, depth, i + 1, acc)
               ELSE IF file.kind = "error"
               THEN [seen EXCEPT !.threw = TRUE]
               ELSE IF file.kind = "file"
               THEN CheckEntries(tree, dir, depth, i + 1,
                                 [seen EXCEPT !.found = IsTestFile(file.name)])
               ELSE IF IsTestDirectory(file.name)
               THEN [seen EXCEPT !.found = TRUE]
               ELSE CheckEntries(tree, dir, depth, i + 1,
                                 CheckDirectory(tree, id, depth + 1, seen))
CheckDirectory(tree, dir, depth, acc) ==
  IF depth > 2 THEN acc
  ELSE IF Locked(tree, dir)
  THEN [acc EXCEPT !.read = @ \cup {dir}, !.threw = TRUE]
  ELSE CheckEntries(tree, dir, depth, 1, [acc EXCEPT !.read = @ \cup {dir}])

\* FileUtils.hasTestFiles(projectPath): the catch block returns false
hasTestFiles(tree) ==
  LET r == CheckDirectory(tree, Root, 0, NoScan)
  IN  IF r.threw THEN [r EXCEPT !.found = FALSE] ELSE r

(***************************************************************************)
(* The tree renderers.  Both work on the tree on disk; a rendering is the  *)
(* sequence of its lines, and a line is kept as the parts it is put        *)
(* together from and the entry it names (Root for the placeholder line).   *)
(* The glyphs are written "|-- " (an entry), "+-- " (the last entry of a   *)
(* directory), "|   " and "| " (one level of nesting).                     *)
(***************************************************************************)
\* largest depth of an entry below the project root in a rendered tree
MaxTreeLevels == 5

\* largest depth argument given to generateFolderStructure
MaxRenderDepth == 3

\* generateDirectoryTree: the default of maxDepth, which
\* analyzeProjectStructure also passes
maxDepth == 3

\* generateDirectoryTree: items.filter(...).slice(0, 15)
MaxItems == 15

\* fifteen files of one directory
WideNames ==
  <<"a01.ts", "a02.ts", "a03.ts", "a04.ts", "a05.ts", "a06.ts", "a07.ts",
    "a08.ts", "a09.ts", "a10.ts", "a11.ts", "a12.ts", "a13.ts", "a14.ts",
    "a15.ts">>

\* the listings a directory of a rendered tree may have, in the order
\* readdirSync returns them
RenderListings ==
  {<<>>,
   <<Entry("README.md", "file"), Entry("src", "dir"), Entry(".git", "dir"),
     Entry("node_modules", "dir"), Entry("api", "dir")>>,
   <<Entry("dist", "dir"), Entry("index.js", "file")>>,
   <<Entry("main.py", "file"), Entry("private", "locked")>>,
   <<Entry("lib", "locked"), Entry("dangling", "error")>>,
   <<Entry("__pycache__", "dir")>>
     \o [i \in 1..Len(WideNames) |-> Entry(WideNames[i], "file")]
     \o <<Entry("zz", "dir")>>}

\* the trees to render
RenderTrees ==
  {t \in UNION {[1..n -> RenderListings] : n \in 1..MaxTreeLevels} :
     \A k \in 1..(Len(t) - 1) : FirstDir(t[k]) # 0}

Line(prefix, pointer, name, suffix, entry) ==
  [prefix |-> prefix, pointer |-> pointer, name |-> name, suffix |-> suffix,
   entry |-> entry]

\* the text of a line
LineText(line) ==
  line.prefix \o line.pointer \o line.name \o line.suffix \o "\n"

\* Dirent.isDirectory() and Stats.isDirectory(); a Dirent whose statSync
\* throws (a dangling link) is no directory
IsDirectory(f) == f.kind \in {"dir", "locked"}

\* generateFolderStructure: skipList
skipList ==
  <<"node_modules", ".git", ".vscode", "dist", "build", ".next", ".nuxt",
    "__pycache__", "coverage">>

\* getFolderComment
getFolderComment(folderName) ==
  CASE folderName = "src" -> " # Source code"
    [] folderName = "api" -> " # API services"
    [] folderName = "lib" -> " # Library files"
    [] OTHER -> ""

\* getFileComment
getFileComment(fileName) ==
  IF fileName = "README.md" THEN " # Project documentation" ELSE ""

\* the names of RenderListings in the order of String.localeCompare
Collation ==
  WideNames \o <<"api", "dangling", "index.js", "lib", "main.py", "private",
                 "README.md", "src", "zz">>

\* a.localeCompare(b), for names of Collation
LocaleCompare(a, b) ==
  LET rank == [name \in {Collation[i] : i \in 1..Len(Collation)} |->
                 CHOOSE i \in 1..Len(Collation) : Collation[i] = name]
  IN  rank[a] - rank[b]

\* Compare that orders by name only
CompareByName(a, b) == LocaleCompare(a.name, b.name)

\* generateFolderStructure: the comparator given to sort
Compare(a, b) ==
  IF IsDirectory(a) /\ ~IsDirectory(b) THEN -1
  ELSE IF ~IsDirectory(a) /\ IsDirectory(b) THEN 1
  ELSE LocaleCompare(a.name, b.name)

\* Array.prototype.sort with Compare, on the positions arr of files
Sort(files, arr) ==
  SortSeq(arr, LAMBDA i, j : Compare(files[i], files[j]) < 0)

\* Array.prototype.join(""): the line lists parts[lo..hi] one after another,
\* the range being halved until it holds one list
RECURSIVE JoinRange(_, _, _)
JoinRange(parts, lo, hi) ==
  IF lo > hi THEN <<>>
  ELSE IF lo = hi THEN parts[lo]
  ELSE JoinRange(parts, lo, (lo + hi) \div 2)
         \o JoinRange(parts, (lo + hi) \div 2 + 1, hi)
JoinLines(parts) == JoinRange(parts, 1, Len(parts))

\* ReadmeGenerator.generateFolderStructure(dirPath, depth, prefix);
\* FolderLines(idx) is what the callback of map returns for
\* filteredFiles[idx], mapped the array of these, every element computed
\* (as a tuple) before the join
RECURSIVE generateFolderStructure(_, _, _, _)
generateFolderStructure(tree, dirPath, depth, prefix) ==
  IF depth = 0 THEN <<>>
  ELSE IF Locked(tree, dirPath)
  THEN <<Line(prefix, "+-- ", "(Unable to read directory)", "", Root)>>
  ELSE LET files == ReaddirSync(tree, dirPath)
           filteredFiles ==
             Sort(files, SelectSeq([i \in 1..Len(files) |-> i],
                                   LAMBDA i :
                                     /\ ~ArrayIncludes(skipList, files[i].name)
                                     /\ ~StartsWith(files[i].name, ".")))
           arr == filteredFiles
           FolderLines(idx) ==
             LET f == files[arr[idx]]
                 id == <<dirPath[1] + 1, arr[idx]>>
                 pointer == IF idx = Len(arr) THEN "+-- " ELSE "|-- "
                 newPrefix == prefix \o (IF idx = Len(arr) THEN "  " ELSE "| ")
             IN  IF IsDirectory(f)
                 THEN <<Line(prefix, pointer, f.name,
                             "/" \o getFolderComment(f.name), id)>>
                        \o generateFolderStructure(tree, id, depth - 1,
                                                   newPrefix)
                 ELSE <<Line(prefix, pointer, f.name, getFileComment(f.name),
                             id)>>
           mapped == [idx \in 1..Len(arr) |-> FolderLines(idx)] \o <<>>
       IN  JoinLines(mapped)

\* String.prototype.repeat
RECURSIVE Repeat(_, _)
Repeat(s, n) == IF n = 0 THEN "" ELSE s \o Repeat(s, n - 1)

\* generateDirectoryTree: the positions in items of the items the filter
\* keeps
Filter(items) ==
  SelectSeq([i \in 1..Len(items) |-> i],
            LAMBDA i : /\ ~StartsWith(items[i].name, ".")
                       /\ items[i].name # "node_modules"
                       /\ items[i].name # "dist"
                       /\ items[i].name # "build"
                       /\ items[i].name # "coverage")

\* filteredItems without the slice
FilteredItemsAll(items) == Filter(items)

\* generateDirectoryTree: filteredItems, as positions in items
FilteredItems(items) ==
  LET kept == Filter(items)
  IN  SubSeq(kept, 1, IF Len(kept) < MaxItems THEN Len(kept) ELSE MaxItems)

\* GroqService.generateDirectoryTree(dirPath, depth, maxDepth);
\* TreeItems(i) is what one turn of the for loop adds to tree, for
\* filteredItems[i], and added the array of these, every element computed
\* (as a tuple) before they are put one after another.  A statSync that
\* throws anywhere in the loop ends in the catch, which returns the empty
\* string.
RECURSIVE generateDirectoryTree(_, _, _, _)
generateDirectoryTree(tree, dirPath, depth, max) ==
  IF depth > max THEN <<>>
  ELSE IF Locked(tree, dirPath) THEN <<>>
  ELSE LET items == ReaddirSync(tree, dirPath)
           filteredItems == FilteredItems(items)
           TreeItems(i) ==
             LET item == items[filteredItems[i]]
                 id == <<dirPath[1] + 1, filteredItems[i]>>
                 isLast == i = Len(filteredItems)
                 prefix == Repeat("|   ", depth)
                 pointer == IF isLast THEN "+-- " ELSE "|-- "
                 suffix == IF IsDirectory(item) THEN "/" ELSE ""
             IN  <<Line(prefix, pointer, item.name, suffix, id)>>
                   \o (IF IsDirectory(item) /\ depth < max
                       THEN generateDirectoryTree(tree, id, depth + 1, max)
                       ELSE <<>>)
           added == [i \in 1..Len(filteredItems) |-> TreeItems(i)] \o <<>>
       IN  IF \E i \in 1..Len(filteredItems) :
                items[filteredItems[i]].kind = "error"
           THEN <<>>
           ELSE JoinLines(added)

\* GroqService.analyzeProjectStructure(workspacePath)
analyzeProjectStructure(tree) == generateDirectoryTree(tree, Root, 0, maxDepth)

\* what a renderer returned: the depth it was given and the lines
Rendering(depth, lines) == [depth |-> depth, lines |-> lines]
NoRendering == Rendering(-1, <<>>)

(***************************************************************************)
(* The manifest and the templated document.  A value read from             *)
(* package.json is undefined, a string, or an object, of which only its    *)
(* name (for author) or url (for repository) property matters.  The        *)
(* document is kept as the lines of the template whose text depends on     *)
(* the manifest or the lockfiles; the sections other generators return     *)
(* and the fixed lines are left out, and so are the pictographs and the    *)
(* backquotes.                                                             *)
(***************************************************************************)
undefined == [kind |-> "undefined", value |-> ""]
Str(v) == [kind |-> "string", value |-> v]

\* an object whose name or url property is v, "" when it has none
Obj(v) == [kind |-> "object", value |-> v]

\* Falsy that takes the empty string for a value
FalsyUndefinedOnly(x) == x.kind = "undefined"

\* a value that || and ?: take for false
Falsy(x) == x.kind = "undefined" \/ (x.kind = "string" /\ x.value = "")

\* a || b
Or(a, b) == IF Falsy(a) THEN b ELSE a

\* x?.name and x?.url
Property(x) ==
  IF x.kind = "object" /\ x.value # "" THEN Str(x.value) ELSE undefined

\* a value inside a template literal
TemplateLiteral(x) ==
  CASE x.kind = "string" -> x.value
    [] x.kind = "object" -> "[object Object]"
    [] OTHER -> "undefined"

\* package.json: kind is "absent" when there is no such file, "unparsable"
\* when readFileSync or JSON.parse throws, "null" when the text is the
\* JSON null, "object" otherwise
NoPackageJson(kind) ==
  [kind |-> kind, name |-> undefined, description |-> undefined,
   license |-> undefined, repository |-> undefined, version |-> undefined,
   author |-> undefined, homepage |-> undefined, dependencies |-> <<>>,
   devDependencies |-> <<>>, scripts |-> <<>>]

\* the package.json files a project may have
PackageJsons ==
  {NoPackageJson("absent"), NoPackageJson("unparsable"),
   NoPackageJson("null")}
  \cup
  {[kind |-> "object", name |-> n, description |-> d, license |-> l,
    repository |-> r, version |-> Str("1.0.0"), author |-> a,
    homepage |-> h, dependencies |-> deps[1], devDependencies |-> deps[2],
    scripts |-> sc] :
     n \in {undefined, Str(""), Str("shop-api")},
     d \in {undefined, Str("An API for shops.")},
     l \in {undefined, Str(""), Str("ISC")},
     r \in {undefined, Str("https://github.com/ann/shop-api.git")},
     a \in {undefined, Str("Ann"), Obj("Bo")},
     h \in {undefined, Str("https://shop.example")},
     deps \in {<<<<>>, <<>>>>, <<<<"react">>, <<>>>>,
               <<<<"lodash">>, <<"vite">>>>},
     sc \in {<<>>, <<"dev", "build">>}}

\* the project root: the last part of its path, its package.json and the
\* lockfiles in it
Workspace(basename, packageJson, lockfiles) ==
  [basename |-> basename, packageJson |-> packageJson,
   lockfiles |-> lockfiles]
NoWorkspace == Workspace("", NoPackageJson("absent"), {})

Workspaces ==
  {Workspace(b, p, l) : b \in {"my_app", "#Notes"}, p \in PackageJsons,
                        l \in SUBSET {"pnpm-lock.yaml", "yarn.lock"}}

\* analyzeProject: projectInfo as it is initialised
InitialProjectInfo(workspaceName) ==
  [name |-> workspaceName, description |-> undefined, license |-> undefined,
   repository |-> undefined, version |-> undefined, author |-> undefined,
   homepage |-> undefined, dependencies |-> <<>>, devDependencies |-> <<>>,
   scripts |-> <<>>, fileTypes |-> <<>>, hasTests |-> FALSE, framework |-> ""]

\* analyzeProject: projectInfo after the manifest was read; the statements
\* of the try block run for an object only
ReadPackageJson(ws) ==
  LET packageJson == ws.packageJson
      projectInfo == InitialProjectInfo(ws.basename)
  IN  IF packageJson.kind # "object" THEN projectInfo
      ELSE [projectInfo EXCEPT
              !.name = Or(packageJson.name, Str(projectInfo.name)).value,
              !.description = packageJson.description,
              !.license = packageJson.license,
              !.repository = Or(Property(packageJson.repository),
                                packageJson.repository),
              !.version = packageJson.version,
              !.author = Or(Property(packageJson.author), packageJson.author),
              !.homepage = packageJson.homepage,
              !.dependencies = packageJson.dependencies,
              !.devDependencies = packageJson.devDependencies,
              !.scripts = packageJson.scripts]

\* analyzeProject: the scans and detectFramework
ScanAndDetect(projectInfo, tree) ==
  LET scanned == [projectInfo EXCEPT
                    !.fileTypes = getFileTypes(tree).fileTypes,
                    !.hasTests = hasTestFiles(tree).found]
  IN  [scanned EXCEPT !.framework = detectFramework(scanned)]

\* what analyzeProject returned and whether it threw
Analyzed(threw, projectInfo) == [threw |-> threw, projectInfo |-> projectInfo]
NotAnalyzed == Analyzed(FALSE, InitialProjectInfo(""))

\* analyzeProject without the try block around the manifest
analyzeProjectNoCatch(ws, tree) ==
  Analyzed(ws.packageJson.kind \in {"unparsable", "null"},
           ScanAndDetect(ReadPackageJson(ws), tree))

\* ProjectAnalyzer.analyzeProject(workspacePath)
analyzeProject(ws, tree) ==
  Analyzed(FALSE, ScanAndDetect(ReadPackageJson(ws), tree))

\* FileUtils.getInstallCommand
getInstallCommand(lockfiles) ==
  IF "pnpm-lock.yaml" \in lockfiles THEN "pnpm install"
  ELSE IF "yarn.lock" \in lockfiles THEN "yarn install"
  ELSE "npm install"

\* FileUtils.getStartCommand
getStartCommand(projectInfo, lockfiles) ==
  IF ArrayIncludes(projectInfo.scripts, "dev")
  THEN IF "pnpm-lock.yaml" \in lockfiles THEN "pnpm dev" ELSE "npm run dev"
  ELSE IF "pnpm-lock.yaml" \in lockfiles THEN "pnpm start" ELSE "npm start"

\* String.prototype.toUpperCase on one character
UpperChar(c) ==
  IF \E u \in DOMAIN LowerOf : LowerOf[u] = c
  THEN CHOOSE u \in DOMAIN LowerOf : LowerOf[u] = c
  ELSE c

\* ReadmeGenerator.capitalizeTitle: Words is the text from s on, start
\* telling whether s begins a word
RECURSIVE Words(_, _)
Words(s, start) ==
  IF Len(s) = 0 THEN ""
  ELSE LET c == SubSeq(s, 1, 1)
           rest == SubSeq(s, 2, Len(s))
       IN  IF c \in {"-", "_", " "} THEN " " \o Words(rest, TRUE)
           ELSE (IF start THEN UpperChar(c) ELSE LowerChar(c))
                  \o Words(rest, FALSE)
capitalizeTitle(title) == Words(title, TRUE)

\* TemplateService.generateReadme(projectInfo), with the lockfiles at
\* projectInfo.workspacePath
generateReadme(projectInfo, lockfiles) ==
  LET isReact == \/ SomeIncludes(projectInfo.dependencies, "react")
                 \/ SomeIncludes(projectInfo.dependencies, "next")
      isVite == \/ SomeIncludes(projectInfo.dependencies, "vite")
                \/ SomeIncludes(projectInfo.devDependencies, "vite")
  IN  <<"# " \o (IF StartsWith(projectInfo.name, "#") THEN projectInfo.name
                 ELSE capitalizeTitle(projectInfo.name)),
        TemplateLiteral(Or(projectInfo.description,
           Str("A modern application built with cutting-edge technologies."))),
        IF ~Falsy(projectInfo.homepage)
        THEN "- **Application**: [" \o TemplateLiteral(projectInfo.homepage) \o "]("
               \o TemplateLiteral(projectInfo.homepage) \o ")"
        ELSE "- Live demo will be available soon",
        "    git clone "
          \o TemplateLiteral(Or(projectInfo.repository,
                         Str("https://github.com/username/repository.git"))),
        "    cd " \o projectInfo.name,
        "    " \o getInstallCommand(lockfiles),
        "    " \o getStartCommand(projectInfo, lockfiles),
        "    Navigate to "
          \o (IF isReact THEN "http://localhost:3000"
              ELSE IF isVite THEN "http://localhost:5173"
              ELSE "http://localhost:3000"),
        IF ~Falsy(projectInfo.license)
        THEN "This project is licensed under the "
               \o TemplateLiteral(projectInfo.license)
               \o " License - see the [LICENSE](LICENSE) file for details."
        ELSE "This project is licensed under the MIT License"
               \o " - see the [LICENSE](LICENSE) file for details.",
        IF ~Falsy(projectInfo.author)
        THEN "**" \o TemplateLiteral(projectInfo.author) \o "**"
        ELSE "**Developer**",
        "  Made with love by "
          \o TemplateLiteral(Or(projectInfo.author, Str("Developer")))>>

(***************************************************************************)
(* State                                                                   *)
(***************************************************************************)
VARIABLES
  wsKey,            \* intelliReadme.groqApiKey in the workspace settings
  globalKey,        \* intelliReadme.groqApiKey in the user settings
  preferredModel,   \* intelliReadme.preferredModel
  file,             \* README.md at the project root
  pc,               \* where the request stands
  reqNo,            \* requests started so far
  readmeContent,    \* readmeContent of generateReadme
  generationMethod, \* generationMethod of generateReadme
  strategies,       \* strategies invoked by this request, in order
  shown,            \* warnings and errors shown by this request, in order
  announced,        \* the method named in the success message, if shown
  cancelledAt,      \* the dialog the user dismissed in this request
  overwriteAnswer,  \* the answer to "README.md already exists"
  modelsToTry,      \* modelsToTry of GroqService.generateReadme
  idx,              \* position of the loop in modelsToTry
  hist,             \* model attempts completed by this request, in order
  lastOutcome,      \* what the latest completed attempt came back with
  aiError,          \* message of the error GroqService.generateReadme threw
  sent,             \* fetches to the chat endpoint started by this request
  received,         \* fetches to the chat endpoint completed or failed
  sentKeys,         \* credentials sent as bearer token to the chat endpoint
  writes,           \* writeFileSync calls of this request
  storeFault,       \* a settings update outside a try block was rejected
  enableAI,         \* the setting IntelliREADME.enableAI
  projectInfo,      \* the ProjectInfo under analysis
  projectStructure, \* what analyzeProjectStructure returned for it
  framework,        \* projectInfo.framework, "" until detectFramework ran
  analysis,         \* result of performDeepProjectAnalysis, NoAnalysis before
  disk,             \* the tree below the project root
  scanned,          \* what getFileTypes did and gathered, NoScan before
  tested,           \* what hasTestFiles did and answered, NoScan before
  folderStructure,  \* what generateFolderStructure returned, if called
  directoryTree,    \* what analyzeProjectStructure returned, if called
  workspace,        \* the project root the templated document is made for
  analyzed,         \* what analyzeProject returned, NotAnalyzed before
  document          \* the lines TemplateService.generateReadme returned

requestVars ==
  <<wsKey, globalKey, preferredModel, file, pc, reqNo, readmeContent,
    generationMethod, strategies, shown, announced, cancelledAt,
    overwriteAnswer, modelsToTry, idx, hist,
    lastOutcome, aiError, sent, received, sentKeys, writes, storeFault,
    enableAI>>

\* the variables of the project classification
classifierVars == <<projectInfo, projectStructure, framework, analysis>>

\* the variables of the directory scan
scannerVars == <<disk, scanned, tested>>

\* the variables of the tree renderers
rendererVars == <<folderStructure, directoryTree>>

\* the variables of the templated document
templateVars == <<workspace, analyzed, document>>

\* the variables the steps of a request leave alone: those of the project
\* analysis, and the enableAI setting, which only setAIEnabled updates
analysisVars ==
  <<classifierVars, scannerVars, rendererVars, templateVars, enableAI>>

vars == <<requestVars, analysisVars>>

cfgVars == <<wsKey, globalKey, preferredModel>>
aiVars == <<modelsToTry, idx, hist, lastOutcome, sent, received, sentKeys>>
docVars == <<readmeContent, generationMethod, strategies>>
fsVars == <<file, writes>>

\* preferred models the settings may hold: the default, another built-in
\* model, and an identifier that is not in GroqService.models
PreferredModels == {models[1], models[3], "custom-model"}

Doc(src, model, text) == [src |-> src, model |-> model, text |-> text]

NoDoc == Doc("none", "", NoText)

\* the document TemplateService.generateReadme returns
TemplateDoc == Doc("template", "", Text(0, 2000, 1))

File(exists, by, req) == [exists |-> exists, by |-> by, req |-> req]

NoFile == File(FALSE, "nobody", 0)

\* a README.md the user wrote before any request
UserFile == File(TRUE, "user", 0)

Terminal == {"done", "declined", "aborted", "failed"}

\* the class of an attempt, as kept in hist: an HTTP 401 response, an
\* HTTP 429 response, a parsed response whose content has at least
\* MinContentLength characters between its first and last non-blank one,
\* or anything else
Tag(o) ==
  IF o.kind = "http" /\ o.bodyOk /\ o.status = 401 THEN "auth"
  ELSE IF o.kind = "http" /\ o.bodyOk /\ o.status = 429 THEN "rate"
  ELSE IF o.kind = "ok" /\ o.parseOk /\ o.hasContent
          /\ o.text.core >= MinContentLength THEN "sufficient"
  ELSE "skippable"

RequestInit ==
  /\ wsKey \in WorkspaceKeys
  /\ globalKey \in GlobalKeys
  /\ preferredModel \in PreferredModels
  /\ file \in {NoFile, UserFile}
  /\ enableAI \in BOOLEAN
  /\ ~enableAI => preferredModel = models[1] /\ file = NoFile
  /\ pc = "idle"
  /\ reqNo = 0
  /\ readmeContent = NoDoc
  /\ generationMethod = "Unknown"
  /\ strategies = <<>>
  /\ shown = <<>>
  /\ announced = "none"
  /\ cancelledAt = "none"
  /\ overwriteAnswer = "none"
  /\ modelsToTry = <<>>
  /\ idx = 0
  /\ hist = <<>>
  /\ lastOutcome = NoOutcome
  /\ aiError = <<>>
  /\ sent = 0
  /\ received = 0
  /\ sentKeys = {}
  /\ writes = 0
  /\ storeFault = FALSE

\* no project is under classification
ClassifierIdle ==
  /\ projectInfo = NoProject
  /\ projectStructure = ""
  /\ framework = ""
  /\ analysis = NoAnalysis

\* no directory is being scanned
ScannerIdle ==
  /\ disk = <<<<>>>>
  /\ scanned = NoScan
  /\ tested = NoScan

\* no tree is being rendered
RendererIdle ==
  /\ folderStructure = NoRendering
  /\ directoryTree = NoRendering

\* no templated document is being made
TemplateIdle ==
  /\ workspace = NoWorkspace
  /\ analyzed = NotAnalyzed
  /\ document = <<>>

Init ==
  /\ RequestInit
  /\ ClassifierIdle
  /\ ScannerIdle
  /\ RendererIdle
  /\ TemplateIdle

(***************************************************************************)
(* Fragments shared by the steps of a request                              *)
(***************************************************************************)
\* templateService.generateReadme(projectInfo) called from generateReadme
\* (lines 78-81 and 106-109), then on to saveAndOpenReadme
UseTemplates ==
  /\ readmeContent' = TemplateDoc
  /\ generationMethod' = "Smart Templates"
  /\ strategies' = Append(strategies, "template")
  /\ pc' = "saving"

\* FallBackToTemplates that rethrows in place of falling back
FallBackRethrow(strats) ==
  /\ pc' = "failed"
  /\ strategies' = strats
  /\ UNCHANGED <<readmeContent, generationMethod>>

\* the fallback at the end of the catch block of generateWithAI; the caller
\* then sets generationMethod (lines 89 and 98)
FallBackToTemplates(strats) ==
  /\ readmeContent' = TemplateDoc
  /\ generationMethod' = "AI-Powered (Your API Key)"
  /\ strategies' = Append(strats, "template")
  /\ pc' = "saving"

\* the warning the catch block of generateWithAI shows for errorMessage
Warning(errorMessage) ==
  IF Includes(errorMessage, InvalidApiKeyPat) THEN "warn: Invalid API key"
  ELSE IF Includes(errorMessage, RateLimitPat) THEN "warn: Rate limit exceeded"
  ELSE "warn: AI generation failed"

\* the catch block of generateWithAI
AIFailed(errorMessage, strats) ==
  /\ aiError' = errorMessage
  /\ shown' = Append(shown, Warning(errorMessage))
  /\ IF Includes(errorMessage, InvalidApiKeyPat)
     THEN /\ pc' = "manageApiKey"
          /\ strategies' = strats
          /\ UNCHANGED <<readmeContent, generationMethod>>
     ELSE FallBackToTemplates(strats)

\* BeginAI that starts the fetches of all models at once
BeginAIAllAtOnce(ws, glob) ==
  LET apiKey == getGroqApiKey(ws, glob)
      strats == Append(strategies, "ai")
  IN  IF ~Truthy(apiKey)
      THEN /\ AIFailed(NoApiKeyMsg, strats)
           /\ UNCHANGED aiVars
      ELSE /\ modelsToTry' = ModelsToTry(preferredModel)
           /\ idx' = 1
           /\ sent' = sent + Len(ModelsToTry(preferredModel))
           /\ sentKeys' = sentKeys \cup {apiKey}
           /\ strategies' = strats
           /\ pc' = "fetching"
           /\ UNCHANGED <<hist, lastOutcome, received, aiError, shown,
                          readmeContent, generationMethod>>

\* generateWithAI: groqService.generateReadme up to its first fetch, with
\* the settings ws, glob
BeginAI(ws, glob) ==
  LET apiKey == getGroqApiKey(ws, glob)
      strats == Append(strategies, "ai")
  IN  IF ~Truthy(apiKey)
      THEN /\ AIFailed(NoApiKeyMsg, strats)
           /\ UNCHANGED aiVars
      ELSE /\ modelsToTry' = ModelsToTry(preferredModel)
           /\ idx' = 1
           /\ sent' = sent + 1
           /\ sentKeys' = sentKeys \cup {apiKey}
           /\ strategies' = strats
           /\ pc' = "fetching"
           /\ UNCHANGED <<hist, lastOutcome, received, aiError, shown,
                          readmeContent, generationMethod>>

(***************************************************************************)
(* Steps of a request.  A step is the code between two awaits on the user  *)
(* or on the network.                                                      *)
(***************************************************************************)
\* the command IntelliREADME.generateReadme (also "Generate Another"):
\* generateReadme up to the strategy choice dialog
GenerateReadme(hasFolder) ==
  /\ pc \in {"idle"} \cup Terminal
  /\ UNCHANGED analysisVars
  /\ reqNo < MaxRequests
  /\ reqNo' = reqNo + 1
  /\ readmeContent' = NoDoc
  /\ generationMethod' = "Unknown"
  /\ strategies' = <<>>
  /\ announced' = "none"
  /\ cancelledAt' = "none"
  /\ overwriteAnswer' = "none"
  /\ modelsToTry' = <<>>
  /\ idx' = 0
  /\ hist' = <<>>
  /\ lastOutcome' = NoOutcome
  /\ aiError' = <<>>
  /\ sent' = 0
  /\ received' = 0
  /\ sentKeys' = {}
  /\ writes' = 0
  /\ storeFault' = FALSE
  /\ IF hasFolder
     THEN /\ pc' = "choosing"
          /\ shown' = <<>>
     ELSE /\ pc' = "aborted"
          /\ shown' = <<"error: Please open a project folder first">>
  /\ UNCHANGED <<cfgVars, file>>

\* the answer to showGenerationChoiceDialog, and generateReadme up to its
\* next await
ChooseStrategy(choice) ==
  /\ pc = "choosing"
  /\ UNCHANGED analysisVars
  /\ choice \in {"ai", "template", "dismiss"}
  /\ IF choice = "dismiss"
     THEN /\ pc' = "aborted"
          /\ cancelledAt' = "choice"
          /\ UNCHANGED <<docVars, shown, aiVars, aiError>>
     ELSE IF choice = "template"
     THEN /\ UseTemplates
          /\ UNCHANGED <<cancelledAt, shown, aiVars, aiError>>
     ELSE IF ~Truthy(getGroqApiKey(wsKey, globalKey))
             \/ ~hasValidApiKey(wsKey, globalKey)
     THEN /\ pc' = "setupDialog"
          /\ UNCHANGED <<cancelledAt, docVars, shown, aiVars, aiError>>
     ELSE /\ BeginAI(wsKey, globalKey)
          /\ UNCHANGED cancelledAt
  /\ UNCHANGED <<cfgVars, fsVars, reqNo, storeFault, announced,
                 overwriteAnswer>>

\* the answer to the modal dialog of showApiKeySetupDialog
ApiKeySetupDialog(choice) ==
  /\ pc = "setupDialog"
  /\ UNCHANGED analysisVars
  /\ choice \in {"Get Free API Key", "Enter API Key",
                 "Use Templates Instead", "dismiss"}
  /\ IF choice = "Get Free API Key"
     THEN /\ pc' = "followUp"
          /\ UNCHANGED <<docVars, cancelledAt>>
     ELSE IF choice = "Enter API Key"
     THEN /\ pc' = "inputBox"
          /\ UNCHANGED <<docVars, cancelledAt>>
     ELSE /\ UseTemplates
          /\ cancelledAt' = IF choice = "dismiss" THEN "setup" ELSE cancelledAt
  /\ UNCHANGED <<cfgVars, fsVars, reqNo, storeFault, shown, announced,
                 overwriteAnswer, aiVars, aiError>>

\* the answer to the follow-up dialog of showApiKeySetupDialog
FollowUpDialog(choice) ==
  /\ pc = "followUp"
  /\ UNCHANGED analysisVars
  /\ choice \in {"Enter My API Key", "Use Templates For Now", "dismiss"}
  /\ IF choice = "Enter My API Key"
     THEN /\ pc' = "inputBox"
          /\ UNCHANGED <<docVars, cancelledAt>>
     ELSE /\ UseTemplates
          /\ cancelledAt' = IF choice = "dismiss" THEN "followUp"
                            ELSE cancelledAt
  /\ UNCHANGED <<cfgVars, fsVars, reqNo, storeFault, shown, announced,
                 overwriteAnswer, aiVars, aiError>>

\* promptAndSaveApiKey: the input box is dismissed
InputBoxDismissed ==
  /\ pc = "inputBox"
  /\ UNCHANGED analysisVars
  /\ UseTemplates
  /\ cancelledAt' = "inputBox"
  /\ UNCHANGED <<cfgVars, fsVars, reqNo, storeFault, shown, announced,
                 overwriteAnswer, aiVars, aiError>>

\* promptAndSaveApiKey: the input box is accepted with value; saved tells
\* whether config.update succeeds
InputBoxAccepted(value, saved) ==
  /\ pc = "inputBox"
  /\ UNCHANGED analysisVars
  /\ value \in TypedKeys
  /\ validateInput(value)
  /\ IF saved /\ StartsWithPrefix(value)
     THEN /\ globalKey' = value
          /\ BeginAI(wsKey, value)
     ELSE /\ UseTemplates
          /\ shown' = Append(shown, "error: Failed to save API key")
          /\ UNCHANGED <<globalKey, aiVars, aiError>>
  /\ UNCHANGED <<wsKey, preferredModel, fsVars, reqNo, storeFault,
                 cancelledAt, overwriteAnswer, announced>>

\* the fetch of modelsToTry[idx] comes back with o: the rest of the loop
\* body, and either the next fetch, the return or the throw
CompleteAttempt(o) ==
  /\ pc = "fetching"
  /\ UNCHANGED analysisVars
  /\ o \in Outcomes
  /\ received' = received + 1
  /\ hist' = Append(hist, [model |-> modelsToTry[idx], tag |-> Tag(o)])
  /\ lastOutcome' = o
  /\ LET r == Attempt(o)
     IN  IF r.op = "return"
         THEN /\ readmeContent' = Doc("ai", modelsToTry[idx], r.text)
              /\ generationMethod' = "AI-Powered (Your API Key)"
              /\ pc' = "saving"
              /\ UNCHANGED <<idx, sent, strategies, shown, aiError>>
         ELSE IF r.op = "throw"
         THEN /\ AIFailed(r.msg, strategies)
              /\ UNCHANGED <<idx, sent>>
         ELSE IF idx < Len(modelsToTry)
         THEN /\ idx' = idx + 1
              /\ sent' = sent + 1
              /\ UNCHANGED <<pc, docVars, shown, aiError>>
         ELSE /\ AIFailed(AllModelsFailedMsg, strategies)
              /\ UNCHANGED <<idx, sent>>
  /\ UNCHANGED <<cfgVars, fsVars, reqNo, storeFault, announced, cancelledAt,
                 overwriteAnswer, modelsToTry, sentKeys>>

\* ConfigManager.manageApiKey, called by the catch block of generateWithAI:
\* "Add API Key" / "Update API Key", the input box answered with value
\* (saved tells whether config.update succeeds)
ManageEnterKey(value, saved) ==
  /\ pc = "manageApiKey"
  /\ UNCHANGED analysisVars
  /\ value \in TypedKeys
  /\ validateInput(value)
  /\ globalKey' = IF saved /\ StartsWithPrefix(value) THEN value ELSE globalKey
  /\ shown' = IF saved /\ StartsWithPrefix(value) THEN shown
              ELSE Append(shown, "error: Failed to save API key")
  /\ FallBackToTemplates(strategies)
  /\ UNCHANGED <<wsKey, preferredModel, fsVars, reqNo, storeFault, announced,
                 cancelledAt, overwriteAnswer, aiVars, aiError>>

\* manageApiKey: "Remove API Key"; updated tells whether config.update
\* succeeds, which no try block surrounds
ManageRemoveKey(confirm, updated) ==
  /\ pc = "manageApiKey"
  /\ UNCHANGED analysisVars
  /\ hasValidApiKey(wsKey, globalKey)
  /\ confirm \in {"Remove", "Cancel", "dismiss"}
  /\ IF confirm # "Remove"
     THEN /\ FallBackToTemplates(strategies)
          /\ UNCHANGED <<globalKey, shown, storeFault>>
     ELSE IF updated
     THEN /\ globalKey' = Undefined
          /\ FallBackToTemplates(strategies)
          /\ UNCHANGED <<shown, storeFault>>
     ELSE /\ storeFault' = TRUE
          /\ pc' = "failed"
          /\ shown' = Append(shown, "error: Failed to generate README")
          /\ UNCHANGED <<globalKey, docVars>>
  /\ UNCHANGED <<wsKey, preferredModel, fsVars, reqNo, announced,
                 cancelledAt, overwriteAnswer, aiVars, aiError>>

\* manageApiKey: "Model Settings", showModelSelection answered with
\* selected ("" when dismissed); updated tells whether config.update
\* succeeds, which no try block surrounds
ManageModelSettings(selected, updated) ==
  /\ pc = "manageApiKey"
  /\ UNCHANGED analysisVars
  /\ hasValidApiKey(wsKey, globalKey)
  /\ selected \in {models[i] : i \in 1..Len(models)} \cup {""}
  /\ IF selected = ""
     THEN /\ FallBackToTemplates(strategies)
          /\ UNCHANGED <<preferredModel, shown, storeFault>>
     ELSE IF updated
     THEN /\ preferredModel' = selected
          /\ FallBackToTemplates(strategies)
          /\ UNCHANGED <<shown, storeFault>>
     ELSE /\ storeFault' = TRUE
          /\ pc' = "failed"
          /\ shown' = Append(shown, "error: Failed to generate README")
          /\ UNCHANGED <<preferredModel, docVars>>
  /\ UNCHANGED <<wsKey, globalKey, fsVars, reqNo, announced,
                 cancelledAt, overwriteAnswer, aiVars, aiError>>

\* manageApiKey: every other answer ("Test API Key", "Get Free API Key",
\* "Cancel", the pick dismissed, the input box dismissed) changes no setting
ManageNoChange ==
  /\ pc = "manageApiKey"
  /\ UNCHANGED analysisVars
  /\ FallBackToTemplates(strategies)
  /\ UNCHANGED <<cfgVars, fsVars, reqNo, storeFault, shown, announced,
                 cancelledAt, overwriteAnswer, aiVars, aiError>>

\* WriteAndOpen that goes on to the success message after a failed write
WriteAndOpenAnnounce(written, opened) ==
  /\ writes' = writes + 1
  /\ file' = IF written THEN File(TRUE, readmeContent.src, reqNo) ELSE file
  /\ IF opened
     THEN /\ announced' = generationMethod
          /\ pc' = "done"
          /\ UNCHANGED shown
     ELSE /\ pc' = "failed"
          /\ shown' = Append(shown, "error: Failed to generate README")
          /\ UNCHANGED announced

\* fs.writeFileSync and what follows it in saveAndOpenReadme; written and
\* opened tell whether the write and openTextDocument/showTextDocument
\* succeed.  An exception reaches the catch block of generateReadme.
WriteAndOpen(written, opened) ==
  /\ writes' = writes + 1
  /\ file' = IF written THEN File(TRUE, readmeContent.src, reqNo) ELSE file
  /\ IF written /\ opened
     THEN /\ announced' = generationMethod
          /\ pc' = "done"
          /\ UNCHANGED shown
     ELSE /\ pc' = "failed"
          /\ shown' = Append(shown, "error: Failed to generate README")
          /\ UNCHANGED announced

\* saveAndOpenReadme up to its first await
SaveAndOpenReadme(written, opened) ==
  /\ pc = "saving"
  /\ UNCHANGED analysisVars
  /\ IF file.exists
     THEN /\ pc' = "confirmOverwrite"
          /\ UNCHANGED <<fsVars, shown, announced>>
     ELSE WriteAndOpen(written, opened)
  /\ UNCHANGED <<cfgVars, reqNo, storeFault, docVars, cancelledAt,
                 overwriteAnswer, aiVars, aiError>>

\* ConfirmOverwrite that returns on "Cancel" only
ConfirmOverwriteUnlessCancel(answer, written, opened) ==
  /\ pc = "confirmOverwrite"
  /\ UNCHANGED analysisVars
  /\ answer \in {"Overwrite", "Cancel", "dismiss"}
  /\ overwriteAnswer' = answer
  /\ IF answer # "Cancel"
     THEN /\ WriteAndOpen(written, opened)
          /\ UNCHANGED cancelledAt
     ELSE /\ pc' = "declined"
          /\ UNCHANGED <<cancelledAt, fsVars, shown, announced>>
  /\ UNCHANGED <<cfgVars, reqNo, storeFault, docVars, aiVars, aiError>>

\* the answer to "README.md already exists"
ConfirmOverwrite(answer, written, opened) ==
  /\ pc = "confirmOverwrite"
  /\ UNCHANGED analysisVars
  /\ answer \in {"Overwrite", "Cancel", "dismiss"}
  /\ overwriteAnswer' = answer
  /\ IF answer = "Overwrite"
     THEN /\ WriteAndOpen(written, opened)
          /\ UNCHANGED cancelledAt
     ELSE /\ pc' = "declined"
          /\ cancelledAt' = IF answer = "dismiss" THEN "overwrite"
                            ELSE cancelledAt
          /\ UNCHANGED <<fsVars, shown, announced>>
  /\ UNCHANGED <<cfgVars, reqNo, storeFault, docVars, aiVars, aiError>>

Next ==
  \/ \E hasFolder \in BOOLEAN : GenerateReadme(hasFolder)
  \/ \E choice \in {"ai", "template", "dismiss"} : ChooseStrategy(choice)
  \/ \E choice \in {"Get Free API Key", "Enter API Key",
                    "Use Templates Instead", "dismiss"} :
       ApiKeySetupDialog(choice)
  \/ \E choice \in {"Enter My API Key", "Use Templates For Now", "dismiss"} :
       FollowUpDialog(choice)
  \/ InputBoxDismissed
  \/ \E value \in TypedKeys, saved \in BOOLEAN : InputBoxAccepted(value, saved)
  \/ \E o \in Outcomes : CompleteAttempt(o)
  \/ \E value \in TypedKeys, saved \in BOOLEAN : ManageEnterKey(value, saved)
  \/ \E confirm \in {"Remove", "Cancel", "dismiss"}, updated \in BOOLEAN :
       ManageRemoveKey(confirm, updated)
  \/ \E selected \in {models[i] : i \in 1..Len(models)} \cup {""},
        updated \in BOOLEAN : ManageModelSettings(selected, updated)
  \/ ManageNoChange
  \/ \E written \in BOOLEAN, opened \in BOOLEAN :
       SaveAndOpenReadme(written, opened)
  \/ \E answer \in {"Overwrite", "Cancel", "dismiss"},
        written \in BOOLEAN, opened \in BOOLEAN :
       ConfirmOverwrite(answer, written, opened)

Spec == Init /\ [][Next]_vars

(***************************************************************************)
(* The project classification on its own: a project is given, then         *)
(* analyzeProject sets its framework label (detectFramework) and the       *)
(* prompt construction classifies it (performDeepProjectAnalysis).         *)
(***************************************************************************)
\* no request is in progress
RequestIdle ==
  /\ RequestInit
  /\ wsKey = Undefined
  /\ globalKey = Undefined
  /\ preferredModel = models[1]
  /\ file = NoFile
  /\ enableAI

ClassifierInit ==
  /\ RequestIdle
  /\ projectInfo \in {ProjectInfo(n, d, dd, sc, ft) :
                        n \in ProjectNames, d \in DependencyLists,
                        dd \in DevDependencyLists, sc \in ScriptLists,
                        ft \in FileTypeLists}
  /\ projectStructure \in ProjectStructures
  /\ framework = ""
  /\ analysis = NoAnalysis
  /\ ScannerIdle
  /\ RendererIdle
  /\ TemplateIdle

\* analyzeProject: projectInfo.framework = this.detectFramework(projectInfo)
DetectFramework ==
  /\ framework = ""
  /\ framework' = detectFramework(projectInfo)
  /\ UNCHANGED <<requestVars, scannerVars, rendererVars, templateVars,
                 projectInfo, projectStructure,
                 analysis>>

\* GroqService.generateReadme: this.performDeepProjectAnalysis(projectInfo)
PerformDeepProjectAnalysis ==
  /\ framework # ""
  /\ analysis = NoAnalysis
  /\ analysis' = performDeepProjectAnalysis(projectInfo, projectStructure)
  /\ UNCHANGED <<requestVars, scannerVars, rendererVars, templateVars,
                 projectInfo, projectStructure,
                 framework>>

ClassifierNext ==
  \/ DetectFramework
  \/ PerformDeepProjectAnalysis

ClassifierSpec == ClassifierInit /\ [][ClassifierNext]_vars

(***************************************************************************)
(* The directory scan on its own: a tree is on disk, then analyzeProject   *)
(* calls getFileTypes and hasTestFiles on the project root.                *)
(***************************************************************************)
ScannerInit ==
  /\ RequestIdle
  /\ ClassifierIdle
  /\ disk \in Trees
  /\ scanned = NoScan
  /\ tested = NoScan
  /\ RendererIdle
  /\ TemplateIdle

\* analyzeProject: projectInfo.fileTypes = FileUtils.getFileTypes(workspacePath)
GetFileTypes ==
  /\ scanned = NoScan
  /\ scanned' = getFileTypes(disk)
  /\ UNCHANGED <<requestVars, classifierVars, rendererVars, templateVars,
                 disk, tested>>

\* analyzeProject: projectInfo.hasTests = FileUtils.hasTestFiles(workspacePath)
HasTestFiles ==
  /\ scanned # NoScan
  /\ tested = NoScan
  /\ tested' = hasTestFiles(disk)
  /\ UNCHANGED <<requestVars, classifierVars, rendererVars, templateVars,
                 disk, scanned>>

ScannerNext ==
  \/ GetFileTypes
  \/ HasTestFiles

ScannerSpec == ScannerInit /\ [][ScannerNext]_vars

(***************************************************************************)
(* The tree renderers on their own: a tree is on disk, then the templated  *)
(* document asks generateFolderStructure for it and the prompt             *)
(* construction asks analyzeProjectStructure.                              *)
(***************************************************************************)
RendererInit ==
  /\ RequestIdle
  /\ ClassifierIdle
  /\ disk \in RenderTrees
  /\ scanned = NoScan
  /\ tested = NoScan
  /\ RendererIdle
  /\ TemplateIdle

\* ReadmeGenerator.generateFolderStructure(workspacePath, depth)
GenerateFolderStructure(depth) ==
  /\ folderStructure = NoRendering
  /\ folderStructure' =
       Rendering(depth, generateFolderStructure(disk, Root, depth, ""))
  /\ UNCHANGED <<requestVars, classifierVars, scannerVars, templateVars,
                 directoryTree>>

\* GroqService.generateReadme: this.analyzeProjectStructure(workspacePath)
AnalyzeProjectStructure ==
  /\ directoryTree = NoRendering
  /\ directoryTree' = Rendering(maxDepth, analyzeProjectStructure(disk))
  /\ UNCHANGED <<requestVars, classifierVars, scannerVars, templateVars,
                 folderStructure>>

RendererNext ==
  \/ \E depth \in 0..MaxRenderDepth : GenerateFolderStructure(depth)
  \/ AnalyzeProjectStructure

RendererSpec == RendererInit /\ [][RendererNext]_vars

(***************************************************************************)
(* The templated document on its own: a project root is given, then        *)
(* analyzeProject reads its manifest and TemplateService.generateReadme    *)
(* makes the document.                                                     *)
(***************************************************************************)
TemplateInit ==
  /\ RequestIdle
  /\ ClassifierIdle
  /\ ScannerIdle
  /\ RendererIdle
  /\ workspace \in Workspaces
  /\ analyzed = NotAnalyzed
  /\ document = <<>>

\* generateReadme: ProjectAnalyzer.analyzeProject(workspacePath)
AnalyzeProject ==
  /\ analyzed = NotAnalyzed
  /\ analyzed' = analyzeProject(workspace, disk)
  /\ UNCHANGED <<requestVars, classifierVars, scannerVars, rendererVars,
                 workspace, document>>

\* generateReadme: this.templateService.generateReadme(projectInfo)
TemplateGenerateReadme ==
  /\ analyzed # NotAnalyzed
  /\ ~analyzed.threw
  /\ document = <<>>
  /\ document' = generateReadme(analyzed.projectInfo, workspace.lockfiles)
  /\ UNCHANGED <<requestVars, classifierVars, scannerVars, rendererVars,
                 workspace, analyzed>>

TemplateNext ==
  \/ AnalyzeProject
  \/ TemplateGenerateReadme

TemplateSpec == TemplateInit /\ [][TemplateNext]_vars

(***************************************************************************)
(* Properties of the model loop and of the request                         *)
(***************************************************************************)
SavingOrLater == {"saving", "confirmOverwrite", "done", "declined", "failed"}

Warnings ==
  {"warn: Invalid API key", "warn: Rate limit exceeded",
   "warn: AI generation failed"}

\* position of model m in the built-in list, 0 when it is not there
PosInModels(m) ==
  IF \E i \in 1..Len(models) : models[i] = m
  THEN CHOOSE i \in 1..Len(models) : models[i] = m
  ELSE 0

C2_RateLimitStopsTheLoop ==
  \A i \in 1..Len(hist) :
    hist[i].tag = "rate" =>
      /\ i = Len(hist)
      /\ sent = i
      /\ received = i
      /\ pc # "fetching"
      /\ aiError = RateLimitMsg

\* C3: a skippable failure on a model that is not the last of the list is
\* followed by the next attempt and leaves no error or warning; and when
\* the first attempt with sufficient content comes after skippable
\* failures only, the request holds that model's (trimmed) content, no
\* error of the strategy and no warning.
C3_FirstSufficientModelWins ==
  /\ \A i \in 1..Len(hist) :
       (hist[i].tag = "skippable" /\ i < Len(modelsToTry)) => sent >= i + 1
  /\ \A i \in 1..Len(hist) :
       (/\ hist[i].tag = "sufficient"
        /\ \A j \in 1..(i - 1) : hist[j].tag = "skippable") =>
         /\ i = Len(hist)
         /\ pc \in SavingOrLater
         /\ aiError = <<>>
         /\ \A k \in 1..Len(shown) : shown[k] \notin Warnings
         /\ readmeContent = Doc("ai", modelsToTry[i], Trim(lastOutcome.text))
         /\ readmeContent.text.core = lastOutcome.text.core
         /\ strategies = <<"ai">>

\* C3 witness: the first attempt was a skippable failure, the second
\* model answered 2000 characters and a line end, and the request holds
\* that content, trimmed
C3_Witness ==
  /\ Len(hist) = 2
  /\ hist[1].tag = "skippable"
  /\ hist[2].tag = "sufficient"
  /\ lastOutcome.text = Text(0, 2000, 1)
  /\ readmeContent = Doc("ai", modelsToTry[2], Text(0, 2000, 0))

\* C4: once the AI path of a request has failed, a warning has been shown,
\* and the request is either in the key-management dialog that the
\* authentication failure opens, or at the Saving step or past it holding
\* the template-generated document, the templated strategy having been
\* invoked after the AI one; only a rejected settings update ends the
\* request otherwise.
C4_AIFailureFallsBackToTemplates ==
  aiError # <<>> =>
    /\ \E k \in 1..Len(shown) : shown[k] \in Warnings
    /\ \/ pc = "manageApiKey"
       \/ storeFault
       \/ /\ pc \in SavingOrLater
          /\ readmeContent = TemplateDoc
          /\ strategies = <<"ai", "template">>
    /\ (pc \in Terminal /\ ~storeFault) => readmeContent = TemplateDoc

\* C4 witness: every model failed, and the request stands at the Saving
\* step with the template-generated document
C4_Witness ==
  /\ aiError = AllModelsFailedMsg
  /\ shown = <<"warn: AI generation failed">>
  /\ pc = "saving"
  /\ readmeContent = TemplateDoc

\* C5: a request in which the user dismissed the strategy choice dialog,
\* the key-setup dialog, its follow-up or the key input box is Aborted: it
\* has invoked no strategy, holds no document and has written nothing.
C5_CancelAborts ==
  cancelledAt \in {"choice", "setup", "followUp", "inputBox"} =>
    /\ pc = "aborted"
    /\ strategies = <<>>
    /\ readmeContent = NoDoc
    /\ writes = 0

\* C6: a request calls writeFileSync at most once; an existing README.md
\* changes only in the step that answers the confirmation dialog with
\* "Overwrite"; after any other answer nothing was written.
C6_OverwriteOnlyWhenConfirmed ==
  /\ [](writes <= 1)
  /\ [](overwriteAnswer \in {"Cancel", "dismiss"} =>
          (writes = 0 /\ pc = "declined"))
  /\ [][(file.exists /\ file' # file) =>
          (/\ pc = "confirmOverwrite"
           /\ overwriteAnswer' = "Overwrite"
           /\ reqNo' = reqNo
           /\ writes' = 1)]_vars

\* C6 witness: the user's README.md exists, the dialog was dismissed, and
\* the file is the user's still
C6_Witness ==
  /\ overwriteAnswer = "dismiss"
  /\ pc = "declined"
  /\ file = UserFile
  /\ readmeContent # NoDoc

\* C7: every credential sent to the chat endpoint starts with "gsk_" and
\* has at least MinKeyLength characters.
C7_CallsOnlyWithValidKey ==
  \A k \in sentKeys : StartsWithPrefix(k) /\ k.len >= MinKeyLength

\* C8 as stated: a response is accepted only if its content is longer
\* than 1000 characters, and a content of 1000 characters or fewer makes
\* the strategy move on.
C8_AcceptedOnlyAboveThreshold ==
  /\ readmeContent.src = "ai" => Length(lastOutcome.text) > MinContentLength
  /\ (/\ lastOutcome.kind = "ok" /\ lastOutcome.parseOk
      /\ lastOutcome.hasContent
      /\ Length(lastOutcome.text) <= MinContentLength) =>
       readmeContent.src # "ai"

\* the strategy has moved on from the latest attempt: the next fetch is
\* under way, or the list is exhausted and the strategy failed with that
MovedOn ==
  \/ pc = "fetching" /\ sent = Len(hist) + 1
  \/ Len(hist) = Len(modelsToTry) /\ aiError = AllModelsFailedMsg

\* C8 amended: a response is accepted exactly when its content, white
\* space at both ends removed, has at least 1000 characters; so an
\* accepted content has at least 1000 characters, and a content of fewer
\* than 1000 characters makes the strategy move on.
C8_AcceptedFromThreshold ==
  /\ hist # <<>> =>
       (readmeContent.src = "ai" <=>
          (/\ lastOutcome.kind = "ok" /\ lastOutcome.parseOk
           /\ lastOutcome.hasContent
           /\ lastOutcome.text.core >= MinContentLength))
  /\ readmeContent.src = "ai" => Length(lastOutcome.text) >= MinContentLength
  /\ (/\ lastOutcome.kind = "ok" /\ lastOutcome.parseOk
      /\ lastOutcome.hasContent
      /\ Length(lastOutcome.text) < MinContentLength) => MovedOn
  /\ (/\ lastOutcome.kind = "ok" /\ lastOutcome.parseOk
      /\ lastOutcome.hasContent
      /\ lastOutcome.text.core < MinContentLength) => MovedOn

\* C8 witness: a content of exactly 1000 characters was accepted
C8_Witness ==
  /\ lastOutcome.text = Text(0, MinContentLength, 0)
  /\ readmeContent.src = "ai"
  /\ readmeContent.text = Text(0, MinContentLength, 0)

\* C9: the attempts follow modelsToTry, which is the preferred model and
\* then the built-in models other than it in the order of the built-in
\* list; no model is attempted twice; an attempt with sufficient content is
\* the last one.
C9_AttemptOrder ==
  /\ \A i \in 1..Len(hist) : hist[i].model = modelsToTry[i]
  /\ pc = "fetching" =>
       /\ modelsToTry[1] = preferredModel
       /\ sent = Len(hist) + 1
  /\ modelsToTry # <<>> =>
       /\ \A m \in {models[i] : i \in 1..Len(models)} :
            \E i \in 1..Len(modelsToTry) : modelsToTry[i] = m
       /\ \A i \in 2..Len(modelsToTry) :
            /\ PosInModels(modelsToTry[i]) > 0
            /\ modelsToTry[i] # modelsToTry[1]
       /\ \A i, j \in 2..Len(modelsToTry) :
            i < j => PosInModels(modelsToTry[i]) < PosInModels(modelsToTry[j])
  /\ \A i, j \in 1..Len(hist) : i # j => hist[i].model # hist[j].model
  /\ \A i \in 1..Len(hist) :
       hist[i].tag = "sufficient" => (i = Len(hist) /\ sent = i)

\* C9 witness: the preferred model is the third built-in one; it was
\* attempted first, then the first and the second built-in ones
C9_Witness ==
  /\ Len(hist) = 3
  /\ hist[1].model = models[3]
  /\ hist[2].model = models[1]
  /\ hist[3].model = models[2]
  /\ hist[3].tag = "sufficient"

\* C10: a request whose attempts were all skippable failures never has
\* more attempts than models; when its loop is over it has attempted each
\* model of the list once, in order, and the strategy has failed with
\* "All AI models failed".
C10_ExhaustionAfterOnePass ==
  (hist # <<>> /\ \A i \in 1..Len(hist) : hist[i].tag = "skippable") =>
    /\ Len(hist) <= Len(modelsToTry)
    /\ sent <= Len(modelsToTry)
    /\ \A i, j \in 1..Len(hist) : i # j => hist[i].model # hist[j].model
    /\ pc # "fetching" =>
         /\ Len(hist) = Len(modelsToTry)
         /\ sent = Len(modelsToTry)
         /\ \A i \in 1..Len(hist) : hist[i].model = modelsToTry[i]
         /\ aiError = AllModelsFailedMsg

\* C10 witness: the preferred model is not a built-in one, five attempts
\* failed in a skippable way and the strategy gave up
C10_Witness ==
  /\ Len(hist) = 5
  /\ \A i \in 1..Len(hist) : hist[i].tag = "skippable"
  /\ aiError = AllModelsFailedMsg
  /\ pc = "saving"

\* C11: at any moment at most one fetch to the chat endpoint is
\* outstanding, one is outstanding exactly while the loop waits, and a
\* fetch is started only when every earlier one has completed or failed.
C11_AttemptsAreSequential ==
  /\ [](/\ sent - received \in {0, 1}
        /\ received = Len(hist)
        /\ (pc = "fetching") <=> (sent = received + 1))
  /\ [][sent' > sent => (sent' = sent + 1 /\ received' = sent)]_vars

\* C11 witness: the second fetch is outstanding, the first has completed
C11_Witness ==
  /\ sent = 2
  /\ received = 1
  /\ Len(hist) = 1
  /\ pc = "fetching"

(***************************************************************************)
(* Properties of the project classification                                *)
(***************************************************************************)
\* performDeepProjectAnalysis has returned
Classified == analysis # NoAnalysis

\* the names of both dependency lists, as package.json spells them
DependencyNames == projectInfo.dependencies \o projectInfo.devDependencies

\* some name of list contains one of pats, letter case aside
AnyContains(list, pats) ==
  \E k \in 1..Len(list) :
    LET name == ToLowerCase(list[k])
    IN  \E pat \in pats : Includes(name, pat)

\* the signal of rule 1: a backend framework among the dependencies, a
\* controller among the file types, a start script
Rule1Signal ==
  \/ AnyContains(DependencyNames, {"express", "fastify", "koa", "nestjs"})
  \/ \E k \in 1..Len(projectInfo.fileTypes) :
       Includes(projectInfo.fileTypes[k], "controller")
  \/ AnyContains(projectInfo.scripts, {"start"})

\* one of rules 1 to 7 matches
SomeRuleMatches ==
  \/ Rule1Signal
  \/ AnyContains(DependencyNames,
                 {"react", "vue", "angular", "expo", "electron", "django",
                  "flask"})
  \/ \E k \in 1..Len(projectInfo.fileTypes) :
       Includes(projectInfo.fileTypes[k], ".py")

\* the elements of a list
Range(list) == {list[k] : k \in 1..Len(list)}

\* C12 as stated: with both dependency lists empty the category is the
\* generic one and the main purpose is not empty, whatever the scripts,
\* file types and name.
C12_EmptyDependenciesAreGeneric ==
  (Classified /\ DependencyNames = <<>>)
    => /\ analysis.projectType \in {"Application", "Software"}
       /\ analysis.mainPurpose # ""

\* C12: with both dependency lists empty, no script containing "start" and
\* no file type containing "controller" or ".py", the category is the
\* generic "Application"; the main purpose is never empty.
C12_EmptyDependenciesWithoutSignal ==
  Classified =>
    /\ analysis.mainPurpose # ""
    /\ (DependencyNames = <<>> /\ ~SomeRuleMatches)
         => analysis.projectType = "Application"
    /\ (DependencyNames = <<>> /\ SomeRuleMatches)
         => analysis.projectType \in {"Backend API", "Python Application"}

\* C12 witness: a project without dependencies, with the script dev only,
\* is classified as the generic application
C12_Witness ==
  /\ Classified
  /\ DependencyNames = <<>>
  /\ projectInfo.scripts = <<"dev">>
  /\ projectInfo.fileTypes = <<>>
  /\ analysis.projectType = "Application"
  /\ analysis.mainPurpose = "A modern software application"

\* C13: a dependency name containing express, fastify, koa or nestjs, or a
\* start script, makes the category "Backend API" whatever else the
\* metadata holds; so does the dependency list express, react.
C13_BackendSignalWins ==
  Classified =>
    /\ ( \/ AnyContains(DependencyNames,
                        {"express", "fastify", "koa", "nestjs"})
         \/ ArrayIncludes(projectInfo.scripts, "start") )
         => analysis.projectType = "Backend API"
    /\ projectInfo.dependencies = <<"express", "react">>
         => analysis.projectType = "Backend API"

\* C13 witness: the dependencies express and react, no start script
C13_Witness ==
  /\ Classified
  /\ projectInfo.dependencies = <<"express", "react">>
  /\ ~ArrayIncludes(projectInfo.scripts, "start")
  /\ analysis.projectType = "Backend API"

\* C14: without a rule 1 signal, dependencies of which one contains react
\* and one contains next give the category "Next.js Application" and a
\* server-side rendering feature.
C14_ReactWithNextIsNextJs ==
  ( /\ Classified
    /\ ~Rule1Signal
    /\ AnyContains(DependencyNames, {"react"})
    /\ AnyContains(DependencyNames, {"next"}) )
    => /\ analysis.projectType = "Next.js Application"
       /\ "Server-side rendering" \in Range(analysis.specialFeatures)

\* C14 witness: the dependencies react and next with the script dev
C14_Witness ==
  /\ Classified
  /\ projectInfo.dependencies = <<"react", "next">>
  /\ projectInfo.devDependencies = <<>>
  /\ projectInfo.scripts = <<"dev">>
  /\ analysis.projectType = "Next.js Application"
  /\ "Server-side rendering" \in Range(analysis.specialFeatures)

\* C15 as stated: when none of rules 1 to 7 matches, the category is
\* "Node.js" with a dependency or devDependency and "Software" without.
C15_FallbackIsNodeJsOrSoftware ==
  (Classified /\ ~SomeRuleMatches)
    => analysis.projectType =
         IF DependencyNames # <<>> THEN "Node.js" ELSE "Software"

\* none of the tests of detectFramework before its last two matches
NoFrameworkMatches ==
  /\ \A k \in 1..Len(DependencyNames) :
       \A pat \in {"next", "nuxt", "react", "vue", "angular", "express",
                   "nestjs"} : ~Includes(DependencyNames[k], pat)
  /\ ".py" \notin Range(projectInfo.fileTypes)

\* C15: when none of rules 1 to 7 matches, the category is "Application"
\* with or without dependencies.  "Node.js" (a dependency or devDependency
\* exists) and "Software" (none exists) are values of the framework label,
\* taken when no test of detectFramework matches.
C15_FallbackIsApplication ==
  /\ (Classified /\ ~SomeRuleMatches) => analysis.projectType = "Application"
  /\ Classified => analysis.projectType \notin {"Node.js", "Software"}
  /\ (framework # "" /\ NoFrameworkMatches)
       => framework = IF DependencyNames # <<>> THEN "Node.js" ELSE "Software"
  /\ (framework # "" /\ ~NoFrameworkMatches)
       => framework \notin {"Node.js", "Software"}

\* C15 witness: a project whose only dependency is lodash is classified
\* "Application" and labelled "Node.js"
C15_Witness ==
  /\ Classified
  /\ projectInfo.dependencies = <<"lodash">>
  /\ projectInfo.devDependencies = <<>>
  /\ ~SomeRuleMatches
  /\ analysis.projectType = "Application"
  /\ framework = "Node.js"

\* the branches of the detection by name and dependencies, in the order of
\* the code: the test, the purpose, the features
OverlayMatches(k) ==
  LET n == ToLowerCase(projectInfo.name)
  IN  CASE k = 1 -> \/ Includes(n, "weather")
                    \/ Includes(n, "klimate")
                    \/ AnyContains(DependencyNames, {"weather"})
        [] k = 2 -> Includes(n, "todo") \/ Includes(n, "task")
        [] k = 3 -> \/ Includes(n, "ecommerce")
                    \/ Includes(n, "shop")
                    \/ AnyContains(DependencyNames, {"stripe"})
        [] k = 4 -> \/ Includes(n, "blog")
                    \/ AnyContains(DependencyNames, {"contentful"})
        [] k = 5 -> \/ Includes(n, "chat")
                    \/ Includes(n, "message")
                    \/ AnyContains(DependencyNames, {"socket.io"})
MatchingOverlays == {k \in 1..5 : OverlayMatches(k)}

TreeNote ==
  IF /\ Includes(projectStructure, "components")
     /\ Includes(projectStructure, "hooks") THEN ArchitectureNotes[1]
  ELSE IF /\ Includes(projectStructure, "controllers")
          /\ Includes(projectStructure, "models") THEN ArchitectureNotes[2]
  ELSE IF /\ Includes(projectStructure, "services")
          /\ Includes(projectStructure, "utils") THEN ArchitectureNotes[3]
  ELSE ""

\* C17 as stated: the architecture note is the one the rendered tree
\* selects, first match first, and is empty when the tree selects none,
\* for every category.
C17_NoteFromTreeOnly == Classified => analysis.architectureNotes = TreeNote

\* C17: the architecture note is the one the rendered tree selects, first
\* match first; when the tree selects none the note is empty for every
\* category except "Backend API", whose note is then "Follows REST
\* architectural patterns".
C17_NoteFromTreeOrBackend ==
  Classified =>
    analysis.architectureNotes =
      IF TreeNote # "" THEN TreeNote
      ELSE IF analysis.projectType = "Backend API"
      THEN "Follows REST architectural patterns"
      ELSE ""

\* C17 witness: a backend project whose tree selects no note keeps the
\* note of its category
C17_Witness ==
  /\ Classified
  /\ analysis.projectType = "Backend API"
  /\ TreeNote = ""
  /\ projectStructure # ""
  /\ analysis.architectureNotes = "Follows REST architectural patterns"

(***************************************************************************)
(* Properties of the directory scan                                        *)
(***************************************************************************)
\* the entries on disk, each with its depth below the root and its position
EntriesOnDisk ==
  UNION {{<<k, i>> : i \in 1..Len(disk[k])} : k \in 1..Len(disk)}

\* the name and the kind of an entry
NameOf(id) == disk[id[1]][id[2]].name
KindOf(id) == disk[id[1]][id[2]].kind

\* an entry named node_modules or with a name that starts with "."
Excluded(id) ==
  NameOf(id) = "node_modules" \/ SubSeq(NameOf(id), 1, 1) = "."

\* the directories an entry lies in, the root aside
Ancestors(id) == {<<k, FirstDir(disk[k])>> : k \in 1..(id[1] - 1)}

\* an entry that is neither excluded nor inside an excluded directory
Visible(id) == ~Excluded(id) /\ \A a \in Ancestors(id) : ~Excluded(a)

\* the name of an entry makes hasTestFiles answer true
TestName(id) ==
  \/ Includes(ToLowerCase(NameOf(id)), "test")
  \/ Includes(ToLowerCase(NameOf(id)), "spec")

\* both scans have run
BothScanned == scanned # NoScan /\ tested # NoScan

\* C19: neither scan gives statSync or readdirSync an entry that is named
\* node_modules or starts with ".", or one inside such a directory, at any
\* depth; every file type gathered and a true answer of hasTestFiles come
\* from entries outside these.
C19_ExcludedEntriesAreNeverTouched ==
  /\ \A r \in {scanned, tested} :
       /\ \A id \in r.statted : Visible(id)
       /\ \A dir \in r.read \ {Root} : Visible(dir)
  /\ \A k \in 1..Len(scanned.fileTypes) :
       \E id \in EntriesOnDisk :
         /\ Visible(id)
         /\ KindOf(id) = "file"
         /\ ExtName(NameOf(id)) = scanned.fileTypes[k]
  /\ tested.found =>
       \E id \in EntriesOnDisk :
         Visible(id) /\ KindOf(id) # "error" /\ TestName(id)

\* C19 witness: node_modules at the root holds app.test.ts; after both
\* scans neither its extension nor a test is reported
C19_Witness ==
  /\ BothScanned
  /\ Len(disk) = 2
  /\ disk[1] = <<Entry("node_modules", "dir"), Entry("main.py", "file")>>
  /\ disk[2] = <<Entry("app.test.ts", "file")>>
  /\ scanned.fileTypes = <<".py">>
  /\ scanned.statted = {<<1, 2>>}
  /\ ~tested.found

\* C20 as stated: no entry at depth 3 or deeper is visited by either scan,
\* so that every file type gathered and a true answer of hasTestFiles come
\* from entries at depth 1 or 2.
C20_NothingBelowDepthTwo ==
  /\ \A r \in {scanned, tested} : \A id \in r.statted : id[1] <= 2
  /\ \A k \in 1..Len(scanned.fileTypes) :
       \E id \in EntriesOnDisk :
         /\ id[1] <= 2
         /\ KindOf(id) = "file"
         /\ ExtName(NameOf(id)) = scanned.fileTypes[k]
  /\ tested.found =>
       \E id \in EntriesOnDisk : id[1] <= 2 /\ TestName(id)

\* C20: the directories at depth 0, 1 and 2 are listed, so entries down to
\* depth 3 are visited and none at depth 4 or deeper: a file at depth 3
\* (root/a/b/file.ext) contributes its extension and can make hasTestFiles
\* true, a file at depth 4 (root/a/b/c/file.ext) never does.
C20_NothingBelowDepthThree ==
  /\ \A r \in {scanned, tested} :
       /\ \A id \in r.statted : id[1] <= 3
       /\ \A dir \in r.read : dir[1] <= 2
  /\ \A k \in 1..Len(scanned.fileTypes) :
       \E id \in EntriesOnDisk :
         /\ id[1] <= 3
         /\ KindOf(id) = "file"
         /\ ExtName(NameOf(id)) = scanned.fileTypes[k]
  /\ tested.found =>
       \E id \in EntriesOnDisk : id[1] <= 3 /\ TestName(id)
  /\ \A id \in EntriesOnDisk :
       (id[1] = 3 /\ Visible(id) /\ KindOf(id) = "file")
         => /\ (scanned # NoScan /\ ~scanned.threw /\ ExtName(NameOf(id)) # "")
                 => \E k \in 1..Len(scanned.fileTypes) :
                      scanned.fileTypes[k] = ExtName(NameOf(id))
            /\ (tested # NoScan /\ ~tested.threw /\ TestName(id))
                 => tested.found

\* C20 witness: root/lib/lib holds main.py (depth 3) and a directory with
\* app.test.ts (depth 4); ".py" is gathered, ".ts" is not, and no test is
\* reported
C20_Witness ==
  /\ BothScanned
  /\ Len(disk) = 4
  /\ disk[1] = <<Entry("lib", "dir")>>
  /\ disk[2] = <<Entry("lib", "dir")>>
  /\ disk[3] = <<Entry("lib", "dir"), Entry("main.py", "file")>>
  /\ disk[4] = <<Entry("app.test.ts", "file")>>
  /\ scanned.fileTypes = <<".py">>
  /\ <<3, 2>> \in scanned.statted
  /\ ~tested.found

\* an entry a scan reaches when nothing throws: not excluded, in no
\* excluded directory, at depth 3 at most
Reached(id) == Visible(id) /\ id[1] <= 3

\* entry a comes before entry b in the order of the scans, a directory
\* before its entries and these before its later siblings
Before(a, b) ==
  IF a[1] = b[1] THEN a[2] < b[2]
  ELSE IF a[1] < b[1] THEN a[2] <= FirstDir(disk[a[1]])
  ELSE FirstDir(disk[b[1]]) < b[2]

\* the entries on which a scan throws: statSync fails, or readdirSync fails
\* on a directory at depth 1 or 2
Failing(id) ==
  /\ Reached(id)
  /\ \/ KindOf(id) = "error"
     \/ KindOf(id) = "locked" /\ id[1] <= 2

\* C21: an exception of statSync or readdirSync never reaches the caller of
\* a scan.  getFileTypes returns the extensions of exactly the files it met
\* before the first failing entry (of all files it reaches when none
\* fails); hasTestFiles returns false when it met a failing entry, also
\* when a test file follows that entry.
C21_ScanErrorsAreCaught ==
  /\ ~scanned.propagated /\ ~tested.propagated
  /\ scanned # NoScan =>
       LET failing == {id \in EntriesOnDisk : Failing(id)}
           met == {id \in EntriesOnDisk :
                     /\ Reached(id)
                     /\ KindOf(id) = "file"
                     /\ ExtName(NameOf(id)) # ""
                     /\ \A e \in failing : Before(id, e)}
       IN  /\ scanned.threw <=> failing # {}
           /\ Range(scanned.fileTypes) = {ExtName(NameOf(id)) : id \in met}
  /\ tested.threw => ~tested.found
  /\ tested # NoScan =>
       \A e \in EntriesOnDisk :
         ( /\ Failing(e)
           /\ KindOf(e) = "locked" => ~TestName(e)
           /\ \A t \in EntriesOnDisk :
                (Reached(t) /\ TestName(t)) => Before(e, t) )
           => ~tested.found

\* C21 witness: statSync throws on the second entry of the root, after the
\* directory lib with main.py was scanned; ".py" is returned and
\* hasTestFiles answers false
C21_Witness ==
  /\ BothScanned
  /\ Len(disk) = 2
  /\ disk[1] = <<Entry("lib", "dir"), Entry("dangling", "error")>>
  /\ disk[2] = <<Entry("main.py", "file")>>
  /\ scanned.threw /\ ~scanned.propagated
  /\ scanned.fileTypes = <<".py">>
  /\ tested.threw /\ ~tested.found /\ ~tested.propagated

(***************************************************************************)
(* C29.  The project type "React Native Mobile App" is produced only for   *)
(* a project one of whose dependency names contains "expo", none of whose  *)
(* dependency names contains "react", "vue" or "angular", and which has    *)
(* no rule-1 signal; a project with a dependency name that contains        *)
(* "react-native" never gets it.                                           *)
(***************************************************************************)
MobileApp == analysis.projectType = "React Native Mobile App"

C29_MobileAppOnlyThroughExpo ==
  Classified =>
    /\ MobileApp =>
         /\ AnyContains(DependencyNames, {"expo"})
         /\ ~AnyContains(DependencyNames, {"react", "vue", "angular"})
         /\ ~Rule1Signal
    /\ AnyContains(DependencyNames, {"react-native"}) => ~MobileApp

\* an Expo project without any other signal is classified as a mobile app
C29_Witness ==
  /\ Classified
  /\ projectInfo.dependencies = <<"expo">>
  /\ projectInfo.devDependencies = <<>>
  /\ projectInfo.scripts = <<>>
  /\ projectInfo.fileTypes = <<>>
  /\ MobileApp

(***************************************************************************)
(* C27.  A write of README.md that fails shows the error message and ends  *)
(* the request: the request is not reported complete, nothing is opened    *)
(* or announced, and until the next request starts the write is not        *)
(* retried and no strategy runs again.                                     *)
(***************************************************************************)
\* README.md on disk is the one the current request wrote
WrittenByRequest == file.exists /\ file.by # "user" /\ file.req = reqNo

\* the write of the current request has failed
WriteFailed == writes > 0 /\ ~WrittenByRequest

C27_WriteFailureEndsTheRequest ==
  [][/\ (writes' = writes + 1 /\ WriteFailed') =>
          /\ pc' = "failed"
          /\ shown' = Append(shown, "error: Failed to generate README")
          /\ announced' = "none"
     /\ WriteFailed =>
          \/ reqNo' = reqNo + 1
          \/ UNCHANGED <<pc, writes, file, strategies, readmeContent,
                         announced, shown, sent>>]_vars

\* the AI strategy produced a document and its write failed
C27_Witness ==
  /\ WriteFailed
  /\ ~file.exists
  /\ writes = 1
  /\ readmeContent.src = "ai"
  /\ pc = "failed"
  /\ announced = "none"

(***************************************************************************)
(* C28.  The generation method named in the success message is the         *)
(* strategy that produced the saved document; after a failed AI strategy   *)
(* and the template fallback it is "Smart Templates".                      *)
(***************************************************************************)
C28_LabelNamesTheStrategy ==
  pc = "done" =>
    announced = IF readmeContent.src = "template" THEN "Smart Templates"
                ELSE "AI-Powered (Your API Key)"

(***************************************************************************)
(* C26.  While the enableAI setting is false a request never takes the AI  *)
(* path: no fetch to the chat endpoint is started and the AI strategy is   *)
(* not run, so a document it produces comes from the templates.            *)
(***************************************************************************)
C26_DisabledAIUsesTemplatesOnly ==
  ~enableAI =>
    /\ sent = 0
    /\ \A k \in 1..Len(strategies) : strategies[k] = "template"
    /\ readmeContent.src \in {"none", "template"}

(***************************************************************************)
(* C23.  generateFolderStructure returns no text for depth 0; for depth    *)
(* d > 0 every entry it renders lies at most d levels below the given      *)
(* directory; no line names a dotfile or one of node_modules, .git,        *)
(* .vscode, dist, build, .next, .nuxt, __pycache__, coverage, or an entry  *)
(* inside one of these; and among the lines of one directory no file       *)
(* comes before a directory.                                               *)
(***************************************************************************)
\* a dotfile or a member of the noise set
Noise(name) ==
  \/ SubSeq(name, 1, 1) = "."
  \/ name \in {"node_modules", ".git", ".vscode", "dist", "build", ".next",
               ".nuxt", "__pycache__", "coverage"}

\* the lines of a rendering that name an entry
EntryLines(r) == {k \in 1..Len(r.lines) : r.lines[k].entry # Root}

C23_FolderStructureIsBoundedAndClean ==
  folderStructure # NoRendering =>
    LET lines == folderStructure.lines
        named == EntryLines(folderStructure)
    IN  /\ folderStructure.depth = 0 => lines = <<>>
        /\ \A k \in named :
             LET id == lines[k].entry
             IN  /\ id \in EntriesOnDisk
                 /\ lines[k].name = NameOf(id)
                 /\ id[1] <= folderStructure.depth
                 /\ ~Noise(lines[k].name)
                 /\ \A a \in Ancestors(id) : ~Noise(NameOf(a))
        /\ \A j \in named, k \in named :
             (/\ j < k
              /\ lines[j].entry[1] = lines[k].entry[1]
              /\ KindOf(lines[k].entry) \in {"dir", "locked"})
               => KindOf(lines[j].entry) \in {"dir", "locked"}

\* a root with a file ahead of its directories and with noise entries,
\* rendered to depth 2 above a third level
C23_Witness ==
  /\ folderStructure.depth = 2
  /\ Len(disk) = 3
  /\ disk[1][1] = Entry("README.md", "file")
  /\ disk[2] = disk[1]
  /\ disk[3] = <<Entry("lib", "locked"), Entry("dangling", "error")>>
  /\ Len(folderStructure.lines) = 6
  /\ LineText(folderStructure.lines[1]) = "|-- api/ # API services\n"
  /\ LineText(folderStructure.lines[2]) = "|-- src/ # Source code\n"
  /\ LineText(folderStructure.lines[3]) = "| |-- api/ # API services\n"
  /\ LineText(folderStructure.lines[4]) = "| |-- src/ # Source code\n"
  /\ LineText(folderStructure.lines[5])
       = "| +-- README.md # Project documentation\n"
  /\ LineText(folderStructure.lines[6])
       = "+-- README.md # Project documentation\n"

(***************************************************************************)
(* C24.  generateDirectoryTree returns, and in what it returns no          *)
(* directory has more than 15 entries, no line is nested deeper than       *)
(* maxDepth = 3 levels, and among the lines of one directory the last one  *)
(* has the last-sibling glyph and no other has it.                         *)
(***************************************************************************)
C24_DirectoryTreeIsCappedAndBounded ==
  directoryTree # NoRendering =>
    LET lines == directoryTree.lines
        named == EntryLines(directoryTree)
        Siblings(level) == {k \in named : lines[k].entry[1] = level}
    IN  /\ named = 1..Len(lines)
        /\ \A k \in named :
             /\ lines[k].entry \in EntriesOnDisk
             /\ lines[k].name = NameOf(lines[k].entry)
             /\ lines[k].prefix = Repeat("|   ", lines[k].entry[1] - 1)
             /\ lines[k].entry[1] - 1 <= maxDepth
        /\ \A level \in 1..Len(disk) :
             /\ Cardinality(Siblings(level)) <= MaxItems
             /\ \A k \in Siblings(level) :
                  lines[k].pointer = "+-- "
                    <=> \A j \in Siblings(level) : j <= k

\* a root of seventeen entries above four more levels: fifteen root
\* entries are shown, the fifteenth as the last, and nothing of level 5
C24_Witness ==
  /\ directoryTree # NoRendering
  /\ Len(disk) = 5
  /\ Len(disk[1]) = 17
  /\ \A level \in 2..5 : Len(disk[level]) = 5
  /\ LET lines == directoryTree.lines
     IN  /\ Cardinality({k \in 1..Len(lines) : lines[k].entry[1] = 1}) = 15
         /\ LineText(lines[Len(lines)]) = "+-- a14.ts\n"
         /\ LineText(lines[1]) = "|-- __pycache__/\n"
         /\ \E k \in 1..Len(lines) :
              LineText(lines[k]) = "|   |   |   |-- README.md\n"
         /\ \A k \in 1..Len(lines) : lines[k].entry[1] # 5

(***************************************************************************)
(* C22.  When package.json is absent or cannot be parsed, analyzeProject   *)
(* returns without an exception and every field it takes from the          *)
(* manifest has its default: the name is the basename of the root, the     *)
(* dependencies, devDependencies and scripts are empty, and description,   *)
(* license, repository, version, author and homepage are undefined.        *)
(***************************************************************************)
C22_NoManifestKeepsDefaults ==
  (/\ analyzed # NotAnalyzed
   /\ workspace.packageJson.kind \in {"absent", "unparsable"})
    => /\ ~analyzed.threw
       /\ analyzed.projectInfo.name = workspace.basename
       /\ analyzed.projectInfo.dependencies = <<>>
       /\ analyzed.projectInfo.devDependencies = <<>>
       /\ analyzed.projectInfo.scripts = <<>>
       /\ analyzed.projectInfo.description = undefined
       /\ analyzed.projectInfo.license = undefined
       /\ analyzed.projectInfo.repository = undefined
       /\ analyzed.projectInfo.version = undefined
       /\ analyzed.projectInfo.author = undefined
       /\ analyzed.projectInfo.homepage = undefined

\* a root whose package.json cannot be parsed has been analysed
C22_Witness ==
  /\ analyzed # NotAnalyzed
  /\ workspace.packageJson.kind = "unparsable"
  /\ workspace.basename = "my_app"
  /\ analyzed.projectInfo.name = "my_app"
  /\ analyzed.projectInfo.framework = "Software"

(***************************************************************************)
(* C25.  The templated document contains the project name as it is; when   *)
(* the license is undefined or empty it contains "MIT", when the author    *)
(* is missing it contains "Developer", and when the homepage is missing    *)
(* it contains the placeholder for the live demo.                          *)
(***************************************************************************)
\* some line of the document contains text
Contains(text) == \E k \in 1..Len(document) : Includes(document[k], text)

C25_TemplateDefaults ==
  document # <<>> =>
    /\ Contains(analyzed.projectInfo.name)
    /\ analyzed.projectInfo.license \in {undefined, Str("")}
         => Contains("MIT")
    /\ analyzed.projectInfo.author = undefined => Contains("Developer")
    /\ analyzed.projectInfo.homepage = undefined
         => Contains("- Live demo will be available soon")

\* a document for a package.json with an empty license and neither author
\* nor homepage; the title does not spell the name as it is
C25_Witness ==
  /\ document # <<>>
  /\ workspace.packageJson.kind = "object"
  /\ analyzed.projectInfo.name = "shop-api"
  /\ analyzed.projectInfo.license = Str("")
  /\ analyzed.projectInfo.author = undefined
  /\ analyzed.projectInfo.homepage = undefined
  /\ document[1] = "# Shop Api"
  /\ document[5] = "    cd shop-api"
  /\ document[10] = "**Developer**"

(***************************************************************************)
(* C30.  In the templated document the install command and the run         *)
(* command use the same package manager, the one of the lockfile at the    *)
(* project root: pnpm for pnpm-lock.yaml, else yarn for yarn.lock, else    *)
(* npm, whatever the lockfiles and whether or not there is a dev script.   *)
(***************************************************************************)
C30_OnePackageManager ==
  document # <<>> =>
    LET manager == IF "pnpm-lock.yaml" \in workspace.lockfiles THEN "pnpm"
                   ELSE IF "yarn.lock" \in workspace.lockfiles THEN "yarn"
                   ELSE "npm"
    IN  /\ StartsWith(document[6], "    " \o manager \o " ")
        /\ StartsWith(document[7], "    " \o manager \o " ")

====
